---- MODULE Spec2Model ----
(***************************************************************************)
(* TMCxx: driver core of the TMC5160 stepper motion controller.            *)
(*                                                                         *)
(* The model follows include/tmcxx/features/core_communicator.hpp (the     *)
(* datagram protocol and the shadow register cache), the register schema   *)
(* of include/tmcxx/chips/tmc5160_registers.hpp and, as the transport, the *)
(* SPI device of tests/mocks/mock_spi.hpp.                                 *)
(*                                                                         *)
(* A uint32_t is the pair <<hi, lo>> of its 16-bit halves (TLC's integers  *)
(* are 32-bit signed, so 0xFFFFFFFF is no TLC integer); the bitwise        *)
(* operators of C++ are computed bit by bit on that pair.                  *)
(***************************************************************************)
EXTENDS Integers, Sequences, FiniteSets, TLC

VARIABLES
    m_register_cache,     \* CoreCommunicator::m_register_cache, 128 slots
    m_register_values,    \* MockSpi::m_register_values, what the chip holds
    m_status_byte,        \* the SPI status byte the chip puts in front of a reply
    m_pending_response,   \* MockSpi::m_pending_response, the reply latched by the last read frame
    m_selected,           \* MockSpi::m_selected
    m_transactions,       \* calls on the SPI device made by the last operation, in order
    last_write,           \* history: per address, the value of the last write<R>(value) call
    ret                   \* the last operation and what it returned

vars == <<m_register_cache, m_register_values, m_status_byte, m_pending_response,
          m_selected, m_transactions, last_write, ret>>

----------------------------------------------------------------------------
(* Bounds of the model                                                     *)

\* how many of the entries of ValueList the operations draw their values from
NumValues == 2

----------------------------------------------------------------------------
(* uint32_t and uint8_t arithmetic                                         *)

Zero == <<0, 0>>

\* a number below 2^31 as a uint32_t
FromNat(n) == <<n \div 65536, n % 65536>>

\* a & b on 16-bit halves and on bytes, bit by bit from the least significant
RECURSIVE AndBits(_, _)
AndBits(a, b) ==
    IF a = 0 \/ b = 0 THEN 0
    ELSE (a % 2) * (b % 2) + 2 * AndBits(a \div 2, b \div 2)

OrBits(a, b) == a + b - AndBits(a, b)

\* a & b, a | b, ~a on uint32_t
And32(a, b) == <<AndBits(a[1], b[1]), AndBits(a[2], b[2])>>
Or32(a, b) == <<OrBits(a[1], b[1]), OrBits(a[2], b[2])>>
Not32(a) == <<65535 - a[1], 65535 - a[2]>>

\* a << n and a >> n on uint32_t, 0 <= n <= 31: bits shifted out are lost
Shl32(a, n) ==
    IF n >= 16 THEN <<(a[2] * (2 ^ (n - 16))) % 65536, 0>>
    ELSE <<((a[1] * (2 ^ n)) % 65536) + (a[2] \div (2 ^ (16 - n))), (a[2] * (2 ^ n)) % 65536>>
Shr32(a, n) ==
    IF n >= 16 THEN <<0, a[1] \div (2 ^ (n - 16))>>
    ELSE <<a[1] \div (2 ^ n), (a[2] \div (2 ^ n)) + (a[1] % (2 ^ n)) * (2 ^ (16 - n))>>

\* static_cast<uint8_t> of a uint32_t
Low8(v) == v[2] % 256

\* a | b and a & b on uint8_t
Or8(a, b) == OrBits(a, b)
And8(a, b) == AndBits(a, b)

----------------------------------------------------------------------------
(* Program constants                                                       *)

tmc_register_count == 128
rx_tx_buffer_size == 5
tmc_write_bit == 128
byte_mask == 255
bits_per_byte == 8

Addresses == 0..(tmc_register_count - 1)

SUCCESS == "SUCCESS"
SPI_TRANSFER_FAILED == "SPI_TRANSFER_FAILED"
REGISTER_ACCESS_FAILED == "REGISTER_ACCESS_FAILED"
INVALID_PARAMETER == "INVALID_PARAMETER"

\* a result_t<void>, or an error, carries no value
NoValue == <<>>

----------------------------------------------------------------------------
(* Register schema                                                         *)

RegisterAddress(name, addr, acc, vol) ==
    [name |-> name, address |-> addr, access |-> acc, volatile |-> vol]

GCONF == RegisterAddress("GCONF", 0, "RW", FALSE)
IHOLD_IRUN == RegisterAddress("IHOLD_IRUN", 16, "RW", FALSE)
CHOPCONF == RegisterAddress("CHOPCONF", 108, "RW", FALSE)
SW_MODE == RegisterAddress("SW_MODE", 52, "RW", FALSE)
RAMPMODE == RegisterAddress("RAMPMODE", 32, "RW", FALSE)
XACTUAL == RegisterAddress("XACTUAL", 33, "RW", TRUE)
VMAX == RegisterAddress("VMAX", 39, "RW", FALSE)
AMAX == RegisterAddress("AMAX", 38, "RW", FALSE)
GLOBAL_SCALER == RegisterAddress("GLOBAL_SCALER", 11, "WO", FALSE)
XTARGET == RegisterAddress("XTARGET", 45, "WO", FALSE)
VSTART == RegisterAddress("VSTART", 35, "WO", FALSE)
A1 == RegisterAddress("A1", 36, "WO", FALSE)
V1 == RegisterAddress("V1", 37, "WO", FALSE)
DMAX == RegisterAddress("DMAX", 40, "WO", FALSE)
D1 == RegisterAddress("D1", 42, "WO", FALSE)
VSTOP == RegisterAddress("VSTOP", 43, "WO", FALSE)
TZEROWAIT == RegisterAddress("TZEROWAIT", 44, "WO", FALSE)
TWPOWER_DOWN == RegisterAddress("TWPOWER_DOWN", 17, "WO", FALSE)
PWMCONF == RegisterAddress("PWMCONF", 112, "WO", FALSE)
GSTAT == RegisterAddress("GSTAT", 1, "RO", FALSE)
VACTUAL == RegisterAddress("VACTUAL", 34, "RO", TRUE)
DRV_STATUS == RegisterAddress("DRV_STATUS", 111, "RO", FALSE)

\* the register the communicator's tests add to the schema
MockVolatileRegister == RegisterAddress("MockVolatileRegister", 127, "RW", TRUE)

register_tuple ==
    <<GCONF, IHOLD_IRUN, CHOPCONF, SW_MODE, RAMPMODE, XACTUAL, VMAX, AMAX,
      GLOBAL_SCALER, XTARGET, VSTART, A1, V1, DMAX, D1, VSTOP, TZEROWAIT,
      TWPOWER_DOWN, PWMCONF, GSTAT, VACTUAL, DRV_STATUS>>

SchemaRegisters == {register_tuple[k] : k \in 1..Len(register_tuple)}

WritableRegister(R) == R.access # "RO"
ReadableRegister(R) == R.access # "WO"
\* mutant: the Volatile marker of a register is not looked at
VolatileRegister_ignored(R) == FALSE
VolatileRegister(R) == R.volatile

\* core::Field<RegAddr, StartBit, Length>
Field(R, StartBit, Length) ==
    [register_t |-> R,
     mask |-> Shl32(FromNat((2 ^ Length) - 1), StartBit),
     shift |-> StartBit]

i_hold_t == Field(IHOLD_IRUN, 0, 5)
i_run_t == Field(IHOLD_IRUN, 8, 5)
i_hold_delay_t == Field(IHOLD_IRUN, 16, 4)
mock_field_t == Field(MockVolatileRegister, 0, 8)

WritableField(F) == WritableRegister(F.register_t)
ReadableField(F) == ReadableRegister(F.register_t)

----------------------------------------------------------------------------
(* The transport: MockSpi                                                  *)

\* One call on the SPI device: select(), deselect() or transfer(tx, rx, timeout).
SpiTransaction(ev, tx, rx, ok) == [ev |-> ev, tx_data |-> tx, rx_data |-> rx, ok |-> ok]

is_write_operation(tx) == And8(tx[1], 128) # 0
get_address(tx) == And8(tx[1], 127)

\* MockSpi::prepare_response: the reply the chip latches for a read of `address`
prepare_response(d, address) ==
    LET value == d.regs[address]
    IN  <<d.status,
          Low8(And32(Shr32(value, 24), FromNat(255))),
          Low8(And32(Shr32(value, 16), FromNat(255))),
          Low8(And32(Shr32(value, 8), FromNat(255))),
          Low8(And32(value, FromNat(255)))>>

select(d) ==
    [d EXCEPT !.selected = TRUE,
              !.log = Append(@, SpiTransaction("select", <<>>, <<>>, TRUE))]

deselect(d) ==
    [d EXCEPT !.selected = FALSE,
              !.log = Append(@, SpiTransaction("deselect", <<>>, <<>>, TRUE))]

\* MockSpi::transfer. d.fail_at is the set of transfers of this operation
\* (counted from 1) on which the transport reports failure.
spi_transfer(d, tx, rx) ==
    LET n == d.count + 1
        d0 == [d EXCEPT !.count = n]
    IN  IF n \in d.fail_at
        THEN [d |-> [d0 EXCEPT !.log = Append(@, SpiTransaction("transfer", tx, rx, FALSE))],
              rx |-> rx, ok |-> FALSE]
        ELSE LET rx1 == IF d.pending # <<>> THEN d.pending ELSE rx
                 is_write == is_write_operation(tx)
                 d1 == [d0 EXCEPT
                          !.log = Append(@, SpiTransaction("transfer", tx, rx1, TRUE)),
                          !.pending = IF is_write THEN @
                                      ELSE prepare_response(d0, get_address(tx))]
             IN  [d |-> d1, rx |-> rx1, ok |-> TRUE]

----------------------------------------------------------------------------
(* CoreCommunicator                                                        *)

\* rx_tx_buffer_t{}: rx_tx_buffer_size zero bytes
EmptyBuffer == <<0, 0, 0, 0, 0>>

Result(d, res, value) == [d |-> d, res |-> res, value |-> value]

\* mutant: deselect by hand, skipped by the early return of a failed transfer
transfer_keeps_selected_on_failure(d, tx_buffer, rx_buffer) ==
    LET guard == select(d)
        r == spi_transfer(guard, tx_buffer, rx_buffer)
    IN  IF r.ok THEN [d |-> deselect(r.d), rx |-> r.rx, res |-> SUCCESS]
        ELSE [d |-> r.d, rx |-> r.rx, res |-> SPI_TRANSFER_FAILED]

\* mutant: the bool the transport returns is dropped
transfer_ignores_failure(d, tx_buffer, rx_buffer) ==
    LET guard == select(d)
        r == spi_transfer(guard, tx_buffer, rx_buffer)
    IN  [d |-> deselect(r.d), rx |-> r.rx, res |-> SUCCESS]

\* CoreCommunicator::transfer with its SPISelectGuard
transfer(d, tx_buffer, rx_buffer) ==
    LET guard == select(d)
        r == spi_transfer(guard, tx_buffer, rx_buffer)
    IN  [d |-> deselect(r.d), rx |-> r.rx,
         res |-> IF r.ok THEN SUCCESS ELSE SPI_TRANSFER_FAILED]

\* tx_buffer[1 + idx] = (val >> (bits_per_byte * (3 - idx))) & byte_mask
\* mutant: the value goes out least-significant byte first
DataByte_little_endian(val, idx) ==
    Low8(And32(Shr32(val, bits_per_byte * idx), FromNat(byte_mask)))

DataByte(val, idx) == Low8(And32(Shr32(val, bits_per_byte * (3 - idx)), FromNat(byte_mask)))

WriteFrame(addr, val) ==
    <<Or8(addr, tmc_write_bit),
      DataByte(val, 0), DataByte(val, 1), DataByte(val, 2), DataByte(val, 3)>>

write_raw(d, addr, val) ==
    LET r == transfer(d, WriteFrame(addr, val), EmptyBuffer)
    IN  Result(r.d, r.res, NoValue)

\* result |= (rx_buffer[1 + idx] << (8 * (3 - idx))) for idx = 0..3
RECURSIVE AssembleReply(_, _)
AssembleReply(rx_buffer, idx) ==
    IF idx > 3 THEN Zero
    ELSE Or32(Shl32(FromNat(rx_buffer[2 + idx]), 8 * (3 - idx)),
              AssembleReply(rx_buffer, idx + 1))

ReadFrame(addr) == <<And8(addr, 127), 0, 0, 0, 0>>

\* mutant: the value is taken from the reply to frame 1
read_raw_first_reply(d, addr) ==
    LET tx1 == ReadFrame(addr)
        r1 == transfer(d, tx1, EmptyBuffer)
        tx2 == [tx1 EXCEPT ![1] = 0]
        r2 == transfer(r1.d, tx2, r1.rx)
    IN  IF r1.res # SUCCESS THEN Result(r1.d, r1.res, NoValue)
        ELSE IF r2.res # SUCCESS THEN Result(r2.d, r2.res, NoValue)
        ELSE Result(r2.d, SUCCESS, AssembleReply(r1.rx, 0))

\* mutant: a hardware read stores what it read in the shadow cache
read_raw_refresh_cache(d, addr) ==
    LET tx1 == ReadFrame(addr)
        r1 == transfer(d, tx1, EmptyBuffer)
        tx2 == [tx1 EXCEPT ![1] = 0]
        r2 == transfer(r1.d, tx2, r1.rx)
        result == AssembleReply(r2.rx, 0)
    IN  IF r1.res # SUCCESS THEN Result(r1.d, r1.res, NoValue)
        ELSE IF r2.res # SUCCESS THEN Result(r2.d, r2.res, NoValue)
        ELSE Result([r2.d EXCEPT !.cache[addr] = result], SUCCESS, result)

\* mutant: a failed hardware read clears the shadow cache slot of the register
read_raw_invalidate_on_failure(d, addr) ==
    LET tx1 == ReadFrame(addr)
        r1 == transfer(d, tx1, EmptyBuffer)
        tx2 == [tx1 EXCEPT ![1] = 0]
        r2 == transfer(r1.d, tx2, r1.rx)
    IN  IF r1.res # SUCCESS
        THEN Result([r1.d EXCEPT !.cache[addr] = Zero], r1.res, NoValue)
        ELSE IF r2.res # SUCCESS
        THEN Result([r2.d EXCEPT !.cache[addr] = Zero], r2.res, NoValue)
        ELSE Result(r2.d, SUCCESS, AssembleReply(r2.rx, 0))

\* mutant: the read is a single frame, answered with what the chip had latched
read_raw_single_frame(d, addr) ==
    LET r1 == transfer(d, ReadFrame(addr), EmptyBuffer)
    IN  IF r1.res # SUCCESS THEN Result(r1.d, r1.res, NoValue)
        ELSE Result(r1.d, SUCCESS, AssembleReply(r1.rx, 0))

\* mutant: the result of the first transfer is looked at after the second
read_raw_checks_after_both(d, addr) ==
    LET tx1 == ReadFrame(addr)
        r1 == transfer(d, tx1, EmptyBuffer)
        tx2 == [tx1 EXCEPT ![1] = 0]
        r2 == transfer(r1.d, tx2, r1.rx)
    IN  IF r1.res # SUCCESS THEN Result(r2.d, r1.res, NoValue)
        ELSE IF r2.res # SUCCESS THEN Result(r2.d, r2.res, NoValue)
        ELSE Result(r2.d, SUCCESS, AssembleReply(r2.rx, 0))

read_raw(d, addr) ==
    LET tx1 == ReadFrame(addr)
        r1 == transfer(d, tx1, EmptyBuffer)
        tx2 == [tx1 EXCEPT ![1] = 0]
        r2 == transfer(r1.d, tx2, r1.rx)
    IN  IF r1.res # SUCCESS THEN Result(r1.d, r1.res, NoValue)
        ELSE IF r2.res # SUCCESS THEN Result(r2.d, r2.res, NoValue)
        ELSE Result(r2.d, SUCCESS, AssembleReply(r2.rx, 0))

\* mutant: the shadow cache is updated only once the frame was transferred
write_commit_on_success(d, RegType, value) ==
    LET d1 == [d EXCEPT !.last_write[RegType.address] = value]
        r == write_raw(d1, RegType.address, value)
    IN  IF r.res = SUCCESS
        THEN Result([r.d EXCEPT !.cache[RegType.address] = value], r.res, NoValue)
        ELSE r

\* mutant: the value is also stored in the slot after the register's
write_two_slots(d, RegType, value) ==
    write_raw([d EXCEPT !.cache[RegType.address] = value,
                        !.cache[(RegType.address + 1) % tmc_register_count] = value,
                        !.last_write[RegType.address] = value],
              RegType.address, value)

\* mutant: a failed transfer puts the previous value back into the shadow cache
write_restore_on_failure(d, RegType, value) ==
    LET r == write_raw([d EXCEPT !.cache[RegType.address] = value,
                                 !.last_write[RegType.address] = value],
                       RegType.address, value)
    IN  IF r.res = SUCCESS THEN r
        ELSE Result([r.d EXCEPT !.cache[RegType.address] = d.cache[RegType.address]],
                    r.res, r.value)

\* mutant: a value the shadow cache already holds is not sent again
write_unless_cached(d, RegType, value) ==
    IF d.cache[RegType.address] = value THEN Result(d, SUCCESS, NoValue)
    ELSE write_raw([d EXCEPT !.cache[RegType.address] = value,
                             !.last_write[RegType.address] = value],
                   RegType.address, value)

write(d, RegType, value) ==
    write_raw([d EXCEPT !.cache[RegType.address] = value,
                        !.last_write[RegType.address] = value],
              RegType.address, value)

\* mutant: the new bits are merged without clearing the field first
write_field_no_clear(d, FieldType, field_val) ==
    LET current == d.cache[FieldType.register_t.address]
        merged == Or32(current, And32(Shl32(field_val, FieldType.shift), FieldType.mask))
    IN  write(d, FieldType.register_t, merged)

\* mutant: the read-modify-write starts from a hardware read of the register
write_field_from_hardware(d, FieldType, field_val) ==
    LET hw == read_raw(d, FieldType.register_t.address)
        current == IF hw.res = SUCCESS THEN hw.value ELSE Zero
        cleared == And32(current, Not32(FieldType.mask))
        merged == Or32(cleared, And32(Shl32(field_val, FieldType.shift), FieldType.mask))
    IN  IF hw.res # SUCCESS THEN Result(hw.d, hw.res, NoValue)
        ELSE write(hw.d, FieldType.register_t, merged)

write_field(d, FieldType, field_val) ==
    LET current == d.cache[FieldType.register_t.address]
        cleared == And32(current, Not32(FieldType.mask))
        merged == Or32(cleared, And32(Shl32(field_val, FieldType.shift), FieldType.mask))
    IN  write(d, FieldType.register_t, merged)

\* mutant: only write-only registers are served from the shadow cache
read_through_readable(d, RegType) ==
    IF RegType.access # "WO"
    THEN read_raw(d, RegType.address)
    ELSE Result(d, SUCCESS, d.cache[RegType.address])

\* mutant: every register is read from the chip
read_always_hardware(d, RegType) == read_raw(d, RegType.address)

read(d, RegType) ==
    IF VolatileRegister(RegType) \/ RegType.access = "RO"
    THEN read_raw(d, RegType.address)
    ELSE Result(d, SUCCESS, d.cache[RegType.address])

read_field(d, FieldType) ==
    LET reg_val == read(d, FieldType.register_t)
    IN  IF reg_val.res # SUCCESS THEN Result(reg_val.d, reg_val.res, NoValue)
        ELSE Result(reg_val.d, SUCCESS,
                    Shr32(And32(reg_val.value, FieldType.mask), FieldType.shift))

\* mutant: an invalid address reads as 0, as the comment above get_shadow says
get_shadow_zero_if_invalid(d, addr) ==
    IF addr >= tmc_register_count THEN Result(d, SUCCESS, Zero)
    ELSE Result(d, SUCCESS, d.cache[addr])

\* addr is a uint8_t
get_shadow(d, addr) ==
    IF addr >= tmc_register_count THEN Result(d, REGISTER_ACCESS_FAILED, NoValue)
    ELSE Result(d, SUCCESS, d.cache[addr])

----------------------------------------------------------------------------
(* Inputs of the operations                                                *)

\* 0x12345678, 0xFFFFFFFF, 0x00000000, 0xDEADBEEF
ValueList == <<<<4660, 22136>>, <<65535, 65535>>, <<0, 0>>, <<57005, 48879>>>>

Values == {ValueList[k] : k \in 1..NumValues}

\* What the chip holds: image k gives every address one of the values, so that
\* neighbouring addresses hold different values, and a status byte.
HwImage(k) == [a \in Addresses |-> ValueList[((a + k) % NumValues) + 1]]
HwStatus(k) == IF k % 2 = 0 THEN 0 ELSE 255
HwImages == {0, 1}

WriteRegs == {VMAX, XTARGET, XACTUAL}
ReadRegs == {VMAX, XTARGET, XACTUAL, GSTAT}
WriteFields == {i_run_t}
ReadFields == {i_run_t, mock_field_t}
ShadowAddrs == {VMAX.address, XACTUAL.address, 200}

\* the transfers of an operation (counted from 1) on which the transport fails:
\* a write makes one transfer, a read at most two
WriteFails == {{}, {1}}
ReadFails == {{}, {1}, {2}}

----------------------------------------------------------------------------
(* State machine                                                           *)

Init ==
    /\ m_register_cache = [a \in Addresses |-> Zero]
    /\ \E k \in HwImages : m_register_values = HwImage(k) /\ m_status_byte = HwStatus(k)
    /\ m_pending_response = <<>>
    /\ m_selected = FALSE
    /\ m_transactions = <<>>
    /\ last_write = [a \in Addresses |-> NoValue]
    /\ ret = [op |-> "init", address |-> 0, arg |-> NoValue, res |-> SUCCESS, value |-> NoValue]

\* the driver and its transport as an operation finds them
Driver(fail_at) ==
    [cache |-> m_register_cache, regs |-> m_register_values, status |-> m_status_byte,
     pending |-> m_pending_response, selected |-> m_selected, log |-> <<>>,
     last_write |-> last_write, fail_at |-> fail_at, count |-> 0]

\* the state an operation leaves, and what it returned
Return(op, address, arg, r) ==
    /\ m_register_cache' = r.d.cache
    /\ m_pending_response' = r.d.pending
    /\ m_selected' = r.d.selected
    /\ m_transactions' = r.d.log
    /\ last_write' = r.d.last_write
    /\ ret' = [op |-> op, address |-> address, arg |-> arg, res |-> r.res, value |-> r.value]
    /\ UNCHANGED <<m_register_values, m_status_byte>>

Write ==
    \E R \in WriteRegs, v \in Values, f \in WriteFails :
        /\ WritableRegister(R)
        /\ Return("write", R.address, v, write(Driver(f), R, v))

WriteField ==
    \E F \in WriteFields, v \in Values, f \in WriteFails :
        /\ WritableField(F)
        /\ Return("write_field", F.register_t.address, v, write_field(Driver(f), F, v))

Read ==
    \E R \in ReadRegs, f \in ReadFails :
        Return("read", R.address, NoValue, read(Driver(f), R))

ReadField ==
    \E F \in ReadFields, f \in ReadFails :
        /\ ReadableField(F)
        /\ Return("read_field", F.register_t.address, NoValue, read_field(Driver(f), F))

GetShadow ==
    \E addr \in ShadowAddrs :
        Return("get_shadow", addr, NoValue, get_shadow(Driver({}), addr))

Next == Write \/ WriteField \/ Read \/ ReadField \/ GetShadow

Spec == Init /\ [][Next]_vars

----------------------------------------------------------------------------
(* Vocabulary of the properties                                            *)

\* a register whose reads are served from the shadow cache
ServedFromCache(R) == R.access # "RO" /\ ~R.volatile

CachedAddrs == {R.address : R \in {Q \in SchemaRegisters : ServedFromCache(Q)}}
HardwareAddrs ==
    {R.address : R \in {Q \in SchemaRegisters \cup {MockVolatileRegister} : ~ServedFromCache(Q)}}

IsTransfer(e) == e.ev = "transfer"
TransfersOf(log) == SelectSeq(log, IsTransfer)
HasFailedTransfer(log) == \E i \in 1..Len(log) : log[i].ev = "transfer" /\ ~log[i].ok

\* every transfer stands between one select and one deselect
Bracketed(log) ==
    /\ Len(log) % 3 = 0
    /\ \A i \in 1..Len(log) :
          log[i].ev = (IF i % 3 = 1 THEN "select" ELSE IF i % 3 = 2 THEN "transfer" ELSE "deselect")

\* the four bytes of a value, most significant first, and the value of four such bytes
BigEndian(v) == <<v[1] \div 256, v[1] % 256, v[2] \div 256, v[2] % 256>>
FrameValue(tx) == <<tx[2] * 256 + tx[3], tx[4] * 256 + tx[5]>>

\* the write frames for address a among the transfers of a log:
\* those that were transferred, and all that were attempted
IsWriteFrameTo(e, a) == e.ev = "transfer" /\ e.tx_data[1] = a + 128
TransferredTo(log, a) == {i \in 1..Len(log) : IsWriteFrameTo(log[i], a) /\ log[i].ok}
AttemptedTo(log, a) == {i \in 1..Len(log) : IsWriteFrameTo(log[i], a)}
Last(S) == CHOOSE i \in S : \A j \in S : j <= i

WriteOps == {"write", "write_field"}
ReadOps == {"read", "read_field"}

----------------------------------------------------------------------------
(* C1: after write<R>(v) on a writable, non-volatile register, and until   *)
(* the next write or write_field to R, read<R>() and get_shadow(R.address) *)
(* return exactly v, whatever was done to other registers since.           *)
C1_WriteThenReadReturnsWritten ==
    /\ (ret.op \in {"read", "get_shadow"} /\ ret.address \in CachedAddrs
            /\ last_write[ret.address] # NoValue)
          => (ret.res = SUCCESS /\ ret.value = last_write[ret.address])
    /\ \A R \in WriteRegs :
          (ServedFromCache(R) /\ last_write[R.address] # NoValue)
            => /\ read(Driver({}), R).value = last_write[R.address]
               /\ get_shadow(Driver({}), R.address).value = last_write[R.address]

C1_Witness ==
    /\ ret.op = "read" /\ ret.address = VMAX.address
    /\ ret.value = ValueList[1] /\ last_write[VMAX.address] = ValueList[1]
    /\ m_register_cache[XTARGET.address] = ValueList[2]
    /\ m_register_cache[XACTUAL.address] = ValueList[2]

(* C2 as stated: the slot of a writable, non-volatile register always      *)
(* equals the last value successfully written to hardware, i.e. a step     *)
(* changes the slot to the value of a write frame it transferred, and      *)
(* leaves it alone otherwise.                                              *)
C2_SlotIsLastTransferredValue ==
    [][\A a \in CachedAddrs :
          m_register_cache'[a] =
             IF TransferredTo(m_transactions', a) # {}
             THEN FrameValue(m_transactions'[Last(TransferredTo(m_transactions', a))].tx_data)
             ELSE m_register_cache[a]]_vars

(* C2 amended: the slot of a writable, non-volatile register always equals *)
(* the value of the last write frame built for it, whether or not its      *)
(* transfer succeeded; a hardware read never changes any of the 128 slots. *)
C2_SlotIsLastAttemptedValue ==
    [][/\ \A a \in CachedAddrs :
             m_register_cache'[a] =
                IF AttemptedTo(m_transactions', a) # {}
                THEN FrameValue(m_transactions'[Last(AttemptedTo(m_transactions', a))].tx_data)
                ELSE m_register_cache[a]
       /\ ret'.op \in ReadOps => m_register_cache' = m_register_cache]_vars

C2_Witness ==
    /\ ret.op = "write_field" /\ ret.res = SPI_TRANSFER_FAILED
    /\ m_register_cache[IHOLD_IRUN.address] # Zero
    /\ m_register_cache[IHOLD_IRUN.address] = FrameValue(TransfersOf(m_transactions)[1].tx_data)

(* C3 as stated: a write or write_field whose transfer fails leaves every  *)
(* shadow cache slot as it was before the call.                            *)
C3_FailedWriteLeavesCache ==
    [][(ret'.op \in WriteOps /\ ret'.res = SPI_TRANSFER_FAILED)
          => m_register_cache' = m_register_cache]_vars

(* C3 amended: the shadow cache is mutated only by write and write_field,  *)
(* successful or not: one whose transfer fails sets the slot of its        *)
(* register to the value it tried to transmit and leaves every other slot  *)
(* as it was; no other operation changes a slot.                           *)
C3_FailedWriteChangesOnlyItsSlot ==
    [][/\ (ret'.op \in WriteOps /\ ret'.res = SPI_TRANSFER_FAILED)
            => \A a \in Addresses :
                  m_register_cache'[a] =
                     IF a = ret'.address
                     THEN FrameValue(TransfersOf(m_transactions')[1].tx_data)
                     ELSE m_register_cache[a]
       /\ ret'.op \notin WriteOps => m_register_cache' = m_register_cache]_vars

C3_Witness ==
    /\ ret.op = "write" /\ ret.address = XTARGET.address /\ ret.res = SPI_TRANSFER_FAILED
    /\ m_register_cache[XTARGET.address] = ret.arg
    /\ m_register_cache[VMAX.address] # Zero

(* C4: when the transport reports failure during write<R>(v), write        *)
(* returns SPI_TRANSFER_FAILED and the slot of R holds v afterwards.       *)
C4_FailedWriteKeepsIntent ==
    (ret.op = "write" /\ HasFailedTransfer(m_transactions))
       => (ret.res = SPI_TRANSFER_FAILED /\ m_register_cache[ret.address] = ret.arg)

C4_Witness ==
    /\ ret.op = "write" /\ ret.address = VMAX.address /\ HasFailedTransfer(m_transactions)
    /\ ret.arg = ValueList[1] /\ m_register_cache[VMAX.address] = ValueList[1]

(* C5: a read or read_field of a read-only or volatile register during     *)
(* which a transfer fails returns SPI_TRANSFER_FAILED and leaves all 128   *)
(* slots unchanged.                                                        *)
C5_FailedReadLeavesCache ==
    [][(ret'.op \in ReadOps /\ ret'.address \in HardwareAddrs
            /\ HasFailedTransfer(m_transactions'))
          => /\ ret'.res = SPI_TRANSFER_FAILED
             /\ ret'.value = NoValue
             /\ m_register_cache' = m_register_cache]_vars

C5_Witness ==
    /\ ret.op = "read_field" /\ ret.address = MockVolatileRegister.address
    /\ ret.res = SPI_TRANSFER_FAILED
    /\ Len(TransfersOf(m_transactions)) = 2
    /\ m_register_cache[XACTUAL.address] # Zero

(* C6: write transmits exactly the 5-byte frame [a | 0x80, v >> 24 & 0xFF, *)
(* v >> 16 & 0xFF, v >> 8 & 0xFF, v & 0xFF], for every address a in 0..127 *)
(* and every value v; 0x12345678 to 0x27 gives [0xA7, 0x12, 0x34, 0x56,    *)
(* 0x78].                                                                  *)
C6_WriteFrameLayout ==
    /\ ret.op = "write"
          => /\ Len(TransfersOf(m_transactions)) = 1
             /\ TransfersOf(m_transactions)[1].tx_data = <<ret.address + 128>> \o BigEndian(ret.arg)
             /\ \A a \in Addresses : WriteFrame(a, ret.arg) = <<a + 128>> \o BigEndian(ret.arg)
    /\ WriteFrame(39, <<4660, 22136>>) = <<167, 18, 52, 86, 120>>

C6_Witness ==
    /\ ret.op = "write" /\ ret.address = 39 /\ ret.arg = <<4660, 22136>>
    /\ TransfersOf(m_transactions)[1].tx_data = <<167, 18, 52, 86, 120>>

(* C7: write<R>(v) makes exactly one transfer whether or not it succeeds,  *)
(* and every transfer of every operation is bracketed: one select before   *)
(* it, one deselect after it, also when it fails; the device is not        *)
(* selected when an operation returns and selects never nest.              *)
C7_OneBracketedTransfer ==
    /\ Bracketed(m_transactions)
    /\ ~m_selected
    /\ ret.op = "write"
          => /\ Len(m_transactions) = 3
             /\ m_transactions[1].ev = "select"
             /\ m_transactions[2].ev = "transfer"
             /\ m_transactions[3].ev = "deselect"

C7_Witness ==
    /\ ret.op = "write" /\ ret.res = SPI_TRANSFER_FAILED
    /\ Len(m_transactions) = 3 /\ ~m_transactions[2].ok /\ ~m_selected

(* C8: a successful read of a read-only or volatile register at address a  *)
(* makes exactly two bracketed transfers: frame 1 = [a & 0x7F, 0, 0, 0, 0],*)
(* whose reply is discarded, then frame 2 = [0, 0, 0, 0, 0]; the value     *)
(* returned is bytes 1..4 of the reply to frame 2, most significant first, *)
(* and byte 0 of that reply is ignored.                                    *)
C8_TwoFrameRead ==
    (ret.op = "read" /\ ret.address \in HardwareAddrs /\ ret.res = SUCCESS)
       => /\ Len(m_transactions) = 6 /\ Bracketed(m_transactions)
          /\ TransfersOf(m_transactions)[1].tx_data = <<ret.address, 0, 0, 0, 0>>
          /\ TransfersOf(m_transactions)[2].tx_data = <<0, 0, 0, 0, 0>>
          /\ ret.value = FrameValue(TransfersOf(m_transactions)[2].rx_data)

C8_Witness ==
    /\ ret.op = "read" /\ ret.address = GSTAT.address /\ ret.res = SUCCESS
    /\ TransfersOf(m_transactions)[2].rx_data[1] = 255
    /\ TransfersOf(m_transactions)[1].rx_data # TransfersOf(m_transactions)[2].rx_data
    /\ TransfersOf(m_transactions)[1].rx_data # <<0, 0, 0, 0, 0>>
    /\ ret.value = FrameValue(TransfersOf(m_transactions)[2].rx_data)

(* C9: read<R>() of a writable, non-volatile register (write-only or       *)
(* read-write) makes no transfer, no select and no deselect, cannot fail,  *)
(* and returns the current shadow cache slot of R.                         *)
C9_CachedReadTouchesNoBus ==
    (ret.op = "read" /\ ret.address \in CachedAddrs)
       => /\ m_transactions = <<>>
          /\ ret.res = SUCCESS
          /\ ret.value = m_register_cache[ret.address]

C9_Witness ==
    /\ ret.op = "read" /\ ret.address = XTARGET.address
    /\ m_transactions = <<>> /\ ret.res = SUCCESS
    /\ ret.value = ValueList[2] /\ m_register_cache[VMAX.address] = ValueList[1]

(* C10: a volatile register is never served from the cache: a read of      *)
(* XACTUAL, also after write<XACTUAL>(v), makes the two-frame hardware     *)
(* read and returns the value the hardware holds, also when that differs   *)
(* from the cached v.                                                      *)
C10_VolatileReadFromHardware ==
    (ret.op = "read" /\ ret.address = XACTUAL.address)
       => /\ Len(TransfersOf(m_transactions)) >= 1
          /\ TransfersOf(m_transactions)[1].tx_data = <<XACTUAL.address, 0, 0, 0, 0>>
          /\ ret.res = SUCCESS
                => /\ Len(TransfersOf(m_transactions)) = 2
                   /\ ret.value = m_register_values[XACTUAL.address]
          /\ ret.res # SUCCESS => ret.value = NoValue

C10_Witness ==
    /\ ret.op = "read" /\ ret.address = XACTUAL.address /\ ret.res = SUCCESS
    /\ last_write[XACTUAL.address] # NoValue
    /\ m_register_cache[XACTUAL.address] = last_write[XACTUAL.address]
    /\ ret.value # m_register_cache[XACTUAL.address]
    /\ ret.value = m_register_values[XACTUAL.address]

----------------------------------------------------------------------------
(* Field access: write_field and read_field over the fields of IHOLD_IRUN, *)
(* a field of a write-only register and the field of the volatile register *)

NumFieldValues == 2

\* 0x12345678, 0xFFFFFFFF, 5, 0xDEADBEEF: wider than any field, all ones, in range
FieldValueList == <<<<4660, 22136>>, <<65535, 65535>>, <<0, 5>>, <<57005, 48879>>>>
FieldValues == {FieldValueList[k] : k \in 1..NumFieldValues}

\* core::Field instantiated on a write-only register
wo_field_t == Field(PWMCONF, 4, 6)

FieldSet == {i_hold_t, i_run_t, i_hold_delay_t, wo_field_t, mock_field_t}

\* the state a field operation leaves, what it returned and the field it was for
FieldReturn(op, F, arg, r) ==
    /\ m_register_cache' = r.d.cache
    /\ m_pending_response' = r.d.pending
    /\ m_selected' = r.d.selected
    /\ m_transactions' = r.d.log
    /\ last_write' = r.d.last_write
    /\ ret' = [op |-> op, address |-> F.register_t.address, arg |-> arg,
               res |-> r.res, value |-> r.value, field |-> F]
    /\ UNCHANGED <<m_register_values, m_status_byte>>

FieldWrite ==
    \E F \in FieldSet, v \in FieldValues, f \in WriteFails :
        /\ WritableField(F)
        /\ FieldReturn("write_field", F, v, write_field(Driver(f), F, v))

FieldRead ==
    \E F \in FieldSet, f \in ReadFails :
        /\ ReadableField(F)
        /\ FieldReturn("read_field", F, NoValue, read_field(Driver(f), F))

FieldNext == FieldWrite \/ FieldRead

FieldSpec == Init /\ [][FieldNext]_vars

----------------------------------------------------------------------------------------------------------------------------------------
(* Vocabulary of the field properties: the bits of a 32-bit value that     *)
(* lie in a field of `w` bits starting at bit `s`, by division             *)

MinOf(a, b) == IF a < b THEN a ELSE b
MaxOf(a, b) == IF a > b THEN a ELSE b

\* the field's bits in the low and in the high half of v, left in place
LoPart(v, s, w) ==
    IF s >= 16 THEN 0 ELSE ((v[2] \div (2 ^ s)) % (2 ^ MinOf(w, 16 - s))) * (2 ^ s)
HiPart(v, s, w) ==
    IF s + w <= 16 THEN 0
    ELSE LET s1 == MaxOf(s, 16) - 16
             w1 == s + w - 16 - s1
         IN  ((v[1] \div (2 ^ s1)) % (2 ^ w1)) * (2 ^ s1)

\* the field as a number, v with the field's bits removed, v truncated to w bits
FieldNat(v, s, w) ==
    IF s >= 16 THEN HiPart(v, s, w) \div (2 ^ (s - 16))
    ELSE (LoPart(v, s, w) \div (2 ^ s)) + HiPart(v, s, w) * (2 ^ (16 - s))
Outside(v, s, w) == <<v[1] - HiPart(v, s, w), v[2] - LoPart(v, s, w)>>
Truncated(v, w) == FieldNat(v, 0, w)

\* start bit and length of the fields, as declared
StartBit(F) ==
    IF F = i_hold_t THEN 0 ELSE IF F = i_run_t THEN 8 ELSE IF F = i_hold_delay_t THEN 16
    ELSE IF F = wo_field_t THEN 4 ELSE 0
Length(F) ==
    IF F = i_hold_t THEN 5 ELSE IF F = i_run_t THEN 5 ELSE IF F = i_hold_delay_t THEN 4
    ELSE IF F = wo_field_t THEN 6 ELSE 8

Siblings(F) == {G \in FieldSet : G.register_t = F.register_t /\ G # F}
ReadableWritableFields == {F \in FieldSet : F.register_t.access = "RW"}
CachedReadableWritableFields == {F \in ReadableWritableFields : ~F.register_t.volatile}

\* a step that writes or reads a field in Fs: the field reads back as the written
\* value truncated to its width, its siblings keep their values, and reading it
\* returns the field's bits of the shadow cache slot
FieldWriteThenRead(Fs) ==
    /\ (ret'.op = "write_field" /\ ret'.field \in Fs)
         => LET F == ret'.field
                after == [Driver({}) EXCEPT !.cache = m_register_cache',
                                            !.pending = m_pending_response']
                r == read_field(after, F)
            IN  /\ r.res = SUCCESS
                /\ r.value = <<0, Truncated(ret'.arg, Length(F))>>
                /\ \A G \in Siblings(F) :
                      FieldNat(m_register_cache'[ret'.address], StartBit(G), Length(G))
                         = FieldNat(m_register_cache[ret'.address], StartBit(G), Length(G))
    /\ (ret'.op = "read_field" /\ ret'.field \in Fs)
         => /\ ret'.res = SUCCESS
            /\ ret'.value = <<0, FieldNat(m_register_cache[ret'.address],
                                          StartBit(ret'.field), Length(ret'.field))>>
            /\ m_register_cache' = m_register_cache

(* C11 as stated: for every field f of a readable and writable register    *)
(* and every value v, write_field(f, v) followed by read_field(f) returns  *)
(* v truncated to the width of f, and every sibling field keeps its value. *)
C11_AnyReadableWritableField == [][FieldWriteThenRead(ReadableWritableFields)]_vars

(* C11 amended: for every field f of a readable, writable and non-volatile *)
(* register and every value v, write_field(f, v) followed by read_field(f) *)
(* returns v truncated to the width of f, and every sibling field of the   *)
(* register keeps the value it had before the write_field, after any       *)
(* sequence of earlier field writes.                                       *)
C11_FieldWriteThenRead == [][FieldWriteThenRead(CachedReadableWritableFields)]_vars

C11_Witness ==
    /\ ret.op = "read_field" /\ ret.field = i_run_t
    /\ ret.value = <<0, 24>>
    /\ m_register_cache[IHOLD_IRUN.address] = <<15, 6175>>

(* C12: write_field never reads hardware: for any field, also of a         *)
(* write-only or a volatile register, it transmits exactly one frame, a    *)
(* write frame for the parent register with the value                      *)
(* (cache & ~mask) | ((v << shift) & mask), and no read frame.             *)
C12_FieldWriteOneFrame ==
    [][ret'.op = "write_field"
          => /\ Len(m_transactions') = 3
             /\ m_transactions'[2].ev = "transfer"
             /\ LET tx == m_transactions'[2].tx_data
                    F == ret'.field
                    s == StartBit(F)
                    w == Length(F)
                IN  /\ tx[1] = F.register_t.address + 128
                    /\ FieldNat(FrameValue(tx), s, w) = Truncated(ret'.arg, w)
                    /\ Outside(FrameValue(tx), s, w)
                          = Outside(m_register_cache[F.register_t.address], s, w)]_vars

C12_Witness ==
    /\ ret.op = "write_field" /\ ret.field = wo_field_t
    /\ ret.arg = <<4660, 22136>>
    /\ Len(TransfersOf(m_transactions)) = 1
    /\ FrameValue(TransfersOf(m_transactions)[1].tx_data) = <<0, 896>>
    /\ m_register_values[PWMCONF.address] # <<0, 896>>

----------------------------------------------------------------------------
\* every value a uint8_t address can take
ByteAddresses == 0..255

\* get_shadow touches neither the bus nor the cache, returns the slot of a valid
\* address and fails with `err` for an address of 128 or more
GetShadowContract(err) ==
    ret'.op = "get_shadow"
       => /\ m_transactions' = <<>>
          /\ m_register_cache' = m_register_cache
          /\ m_pending_response' = m_pending_response
          /\ IF ret'.address < 128
             THEN ret'.res = SUCCESS /\ ret'.value = m_register_cache[ret'.address]
             ELSE ret'.res = err /\ ret'.value = NoValue
          /\ \A a \in ByteAddresses :
                get_shadow(Driver({}), a) =
                   IF a < 128 THEN Result(Driver({}), SUCCESS, m_register_cache[a])
                   ELSE Result(Driver({}), err, NoValue)

----------------------------------------------------------------------------
(* TMC5160RegisterAccess: registers addressed by a run-time value          *)

\* an entry of a lookup table that holds no member function
nullptr == [name |-> "nullptr"]

RegisterAt(a) == CHOOSE R \in SchemaRegisters : R.address = a

\* create_lookup_table: one entry for every register of the schema
register_lookup_table ==
    [a \in Addresses |->
        IF \E R \in SchemaRegisters : R.address = a THEN RegisterAt(a) ELSE nullptr]

\* mutant: the write table is filled like the read table, read-only registers included
register_set_lookup_table_all == register_lookup_table

\* create_set_lookup_table: one entry for every register that is not read-only
register_set_lookup_table ==
    [a \in Addresses |->
        IF \E R \in SchemaRegisters : R.address = a /\ R.access # "RO"
        THEN RegisterAt(a) ELSE nullptr]

\* mutant: the dynamic read goes to the chip whatever the register
get_register_from_hardware(d, R) == read_raw(d, R.address)

\* get_register<Addr> and set_register<Addr> through the bus
get_register(d, R) == read(d, R)
set_register(d, R, value) == write(d, R, value)

\* reg_address is a RegAddress, an enumeration over uint8_t
get_register_value(d, reg_address) ==
    LET index == reg_address
    IN  IF index >= tmc_register_count THEN Result(d, INVALID_PARAMETER, NoValue)
        ELSE IF register_lookup_table[index] = nullptr
        THEN Result(d, INVALID_PARAMETER, NoValue)
        ELSE get_register(d, register_lookup_table[index])

set_register_value(d, reg_address, value) ==
    LET index == reg_address
    IN  IF index >= tmc_register_count THEN Result(d, INVALID_PARAMETER, NoValue)
        ELSE IF register_set_lookup_table[index] = nullptr
        THEN Result(d, REGISTER_ACCESS_FAILED, NoValue)
        ELSE set_register(d, register_set_lookup_table[index], value)

\* the fold of get_all_registers from the k-th register of the schema on:
\* acc is [d, registers, index, success]
\* mutant: a failed read does not stop the reads of the registers after it
RECURSIVE ReadAll_keeps_reading(_, _)
ReadAll_keeps_reading(acc, k) ==
    IF k > Len(register_tuple) THEN acc
    ELSE LET read_val == read(acc.d, register_tuple[k])
         IN  IF read_val.res = SUCCESS
             THEN ReadAll_keeps_reading(
                      [acc EXCEPT !.d = read_val.d,
                                  !.registers[acc.index] = read_val.value,
                                  !.index = acc.index + 1], k + 1)
             ELSE ReadAll_keeps_reading([acc EXCEPT !.d = read_val.d, !.success = FALSE], k + 1)

\* mutant: each value is stored at the address of its register
RECURSIVE ReadAll_by_address(_, _)
ReadAll_by_address(acc, k) ==
    IF k > Len(register_tuple) THEN acc
    ELSE IF ~acc.success THEN ReadAll_by_address(acc, k + 1)
    ELSE LET read_val == read(acc.d, register_tuple[k])
         IN  IF read_val.res = SUCCESS
             THEN ReadAll_by_address(
                      [acc EXCEPT !.d = read_val.d,
                                  !.registers[register_tuple[k].address] = read_val.value,
                                  !.index = acc.index + 1], k + 1)
             ELSE ReadAll_by_address([acc EXCEPT !.d = read_val.d, !.success = FALSE], k + 1)

RECURSIVE ReadAll(_, _)
ReadAll(acc, k) ==
    IF k > Len(register_tuple) THEN acc
    ELSE IF ~acc.success THEN ReadAll(acc, k + 1)
    ELSE LET read_val == read(acc.d, register_tuple[k])
         IN  IF read_val.res = SUCCESS
             THEN ReadAll([acc EXCEPT !.d = read_val.d,
                                      !.registers[acc.index] = read_val.value,
                                      !.index = acc.index + 1], k + 1)
             ELSE ReadAll([acc EXCEPT !.d = read_val.d, !.success = FALSE], k + 1)

get_all_registers(d) ==
    LET acc == ReadAll([d |-> d, registers |-> [a \in Addresses |-> Zero],
                        index |-> 0, success |-> TRUE], 1)
    IN  IF ~acc.success THEN Result(acc.d, SPI_TRANSFER_FAILED, NoValue)
        ELSE Result(acc.d, SUCCESS, acc.registers)

\* RegAddress values: registers of the schema of each access kind, addresses the
\* schema has no register for (IFCNT, 0x7F), and values beyond the tables
SetAddrs == {VMAX.address, XTARGET.address, XACTUAL.address,
             GSTAT.address, VACTUAL.address, DRV_STATUS.address, 2, 127, 128, 255}
GetAddrs == {VMAX.address, XTARGET.address, XACTUAL.address, GSTAT.address, 2, 127, 128, 255}

\* get_all_registers reads four registers from the chip, two transfers each
AllFails == {{}, {1}, {4}, {8}}

SetRegisterValue ==
    \E a \in SetAddrs, v \in Values, f \in WriteFails :
        Return("set_register_value", a, v, set_register_value(Driver(f), a, v))

GetRegisterValue ==
    \E a \in GetAddrs, f \in ReadFails :
        Return("get_register_value", a, NoValue, get_register_value(Driver(f), a))

GetAllRegisters ==
    \E f \in AllFails :
        Return("get_all_registers", 0, NoValue, get_all_registers(Driver(f)))

AccessNext == SetRegisterValue \/ GetRegisterValue \/ GetAllRegisters

AccessSpec == Init /\ [][AccessNext]_vars

----------------------------------------------------------------------------
(* Vocabulary of the register access properties                            *)

ReadOnlyAddrs == {R.address : R \in {Q \in SchemaRegisters : Q.access = "RO"}}
SchemaAddrs == {R.address : R \in SchemaRegisters}

\* the operation touched neither the bus nor the shadow cache
NothingDone ==
    /\ m_transactions' = <<>>
    /\ m_register_cache' = m_register_cache
    /\ m_pending_response' = m_pending_response

(* C14: set_register_value(a, v) for an address a whose schema register is *)
(* read-only (GSTAT, VACTUAL, DRV_STATUS) returns REGISTER_ACCESS_FAILED,  *)
(* transmits no frame and leaves the shadow cache unchanged.               *)
C14_SetReadOnlyRefused ==
    [][/\ ReadOnlyAddrs = {GSTAT.address, VACTUAL.address, DRV_STATUS.address}
       /\ (ret'.op = "set_register_value" /\ ret'.address \in ReadOnlyAddrs)
             => (ret'.res = REGISTER_ACCESS_FAILED /\ NothingDone)]_vars

C14_Witness ==
    /\ ret.op = "set_register_value" /\ ret.address = VACTUAL.address
    /\ ret.res = REGISTER_ACCESS_FAILED /\ m_transactions = <<>>
    /\ m_register_cache[VACTUAL.address] = Zero
    /\ m_register_cache[VMAX.address] = ValueList[1]

(* C15: on the dynamic path, get_register_value(a) and                     *)
(* set_register_value(a, v) both return INVALID_PARAMETER, with no bus     *)
(* transfer and no cache change, for every address a outside 0..127 or     *)
(* without a register in the schema.                                       *)
C15_UnknownAddressIsInvalidParameter ==
    [][(ret'.op \in {"get_register_value", "set_register_value"}
            /\ ret'.address \notin SchemaAddrs)
          => (ret'.res = INVALID_PARAMETER /\ NothingDone)]_vars

\* the frames get_all_registers sends when nothing fails: a two-frame read of every
\* register of the schema that is not served from the cache, in schema order
RECURSIVE ReadFramesFrom(_)
ReadFramesFrom(k) ==
    IF k > Len(register_tuple) THEN <<>>
    ELSE (IF ServedFromCache(register_tuple[k]) THEN <<>>
          ELSE <<<<register_tuple[k].address, 0, 0, 0, 0>>, <<0, 0, 0, 0, 0>>>>)
         \o ReadFramesFrom(k + 1)

(* C16: get_all_registers reads the schema registers in the fixed schema   *)
(* order and is all-or-nothing: if any single register read fails it       *)
(* returns SPI_TRANSFER_FAILED and no array of partial results, and after  *)
(* the first failed read no further register is read.                      *)
C16_ReadAllOrNothing ==
    ret.op = "get_all_registers"
       => LET T == TransfersOf(m_transactions)
              E == ReadFramesFrom(1)
          IN  /\ Len(T) >= 1 /\ Len(T) <= Len(E)
              /\ \A i \in 1..Len(T) : T[i].tx_data = E[i]
              /\ \A i \in 1..(Len(T) - 1) : T[i].ok
              /\ IF T[Len(T)].ok
                 THEN /\ Len(T) = Len(E)
                      /\ ret.res = SUCCESS
                      /\ \A k \in 1..Len(register_tuple) :
                            ret.value[k - 1] =
                               IF ServedFromCache(register_tuple[k])
                               THEN m_register_cache[register_tuple[k].address]
                               ELSE m_register_values[register_tuple[k].address]
                 ELSE ret.res = SPI_TRANSFER_FAILED /\ ret.value = NoValue

C16_Witness ==
    /\ ret.op = "get_all_registers" /\ ret.res = SPI_TRANSFER_FAILED
    /\ ret.value = NoValue
    /\ Len(TransfersOf(m_transactions)) = 4
    /\ TransfersOf(m_transactions)[3].tx_data = <<GSTAT.address, 0, 0, 0, 0>>
    /\ m_register_cache[VMAX.address] = ValueList[1]

----------------------------------------------------------------------------
(* Converter, built as the tests build it: 12 MHz clock, 200 full steps,   *)
(* 75 mOhm sense resistor. Speeds are whole RPM, accelerations whole       *)
(* pulses/s^2, currents whole mA; every operator below gives, for these    *)
(* inputs, the number the float arithmetic of the source gives.            *)

\* <<n * 2^k \div D, n * 2^k % D>>, from <<I, rem>> = <<n \div D, n % D>> by doubling
RECURSIVE ScaleDiv(_, _, _, _)
ScaleDiv(I, rem, k, D) ==
    IF k = 0 THEN <<I, rem>>
    ELSE ScaleDiv(2 * I + ((2 * rem) \div D), (2 * rem) % D, k - 1, D)

RECURSIVE BitLength(_)
BitLength(n) == IF n = 0 THEN 0 ELSE 1 + BitLength(n \div 2)

Clamp(x, lo, hi) == IF x < lo THEN lo ELSE IF x > hi THEN hi ELSE x

\* static_cast<uint32_t> of an int32_t
ToUint32(n) ==
    IF n >= 0 THEN FromNat(n)
    ELSE <<65535 - ((-n - 1) \div 65536), 65535 - ((-n - 1) % 65536)>>

\* (rpm * full_steps * 256 / 60) * 2^24 / f_clk = rpm * 2^25 / 28125, truncated
rpm_to_vmax(rpm) == FromNat(ScaleDiv(rpm \div 28125, rpm % 28125, 25, 28125)[1])

\* a * 2^41 / (f_clk * f_clk) in float: f_clk * f_clk rounds to 8583069 * 2^24, the
\* quotient a * 2^17 / 8583069 rounds to a float of 24 significant bits; then the
\* clamp to [1, 65535], which takes a zero or negative quotient to 1, and the truncation
accel_to_register(accel) ==
    IF accel <= 0 THEN FromNat(1)
    ELSE LET D == 8583069
             q == ScaleDiv(accel \div D, accel % D, 17, D)
             ulps == 2 ^ (25 - BitLength(q[1]))
             result == IF q[2] > 0 /\ (D - q[2]) <= (D - 1) \div ulps THEN q[1] + 1 ELSE q[1]
         IN  FromNat(Clamp(result, 1, 65535))

\* clamp(int32(I / ((0.325 / r_sense) / sqrt2) * 32 - 1), 0, 31) for I in mA
current_to_cs(current) ==
    IF current <= 0 THEN 0
    ELSE Clamp(((current * 32000) \div 3064129) - 1, 0, 31)

----------------------------------------------------------------------------
(* TMC5160Motion                                                           *)

POSITIONING == 0
VELOCITY_POS == 1
VELOCITY_NEG == 2

\* result_t<void>::and_then: the next step runs only after a success
and_then(r, next(_)) == IF r.res = SUCCESS THEN next(r.d) ELSE r

set_ramp_mode(d, mode) == write(d, RAMPMODE, FromNat(mode))
set_max_velocity(d, max_velocity) == write(d, VMAX, rpm_to_vmax(max_velocity))
set_start_speed(d, start_speed) == write(d, VSTART, rpm_to_vmax(start_speed))

\* mutant: the mode is chosen without looking at the sign
rotate_always_forward(d, velocity) ==
    LET abs_vel == IF velocity < 0 THEN -velocity ELSE velocity
    IN  and_then(set_ramp_mode(d, VELOCITY_POS), LAMBDA d1 : set_max_velocity(d1, abs_vel))

rotate(d, velocity) ==
    LET ramp_res == IF 0 <= velocity THEN set_ramp_mode(d, VELOCITY_POS)
                    ELSE set_ramp_mode(d, VELOCITY_NEG)
        abs_vel == IF velocity < 0 THEN -velocity ELSE velocity
    IN  and_then(ramp_res, LAMBDA d1 : set_max_velocity(d1, abs_vel))

\* mutant: the target is written first
move_to_target_first(d, step, max_speed) ==
    and_then(and_then(write(d, XTARGET, ToUint32(step)),
                      LAMBDA d1 : set_ramp_mode(d1, POSITIONING)),
             LAMBDA d2 : set_start_speed(d2, max_speed))

move_to(d, step, max_speed) ==
    and_then(and_then(set_ramp_mode(d, POSITIONING),
                      LAMBDA d1 : set_start_speed(d1, max_speed)),
             LAMBDA d2 : write(d2, XTARGET, ToUint32(step)))

\* mutant: the four writes are made whatever the earlier ones returned
set_linear_acceleration_no_abort(d, acceleration, decel) ==
    LET a_val == accel_to_register(acceleration)
        d_val == FromNat(Clamp(accel_to_register(decel)[2], 1, 65535))
        r1 == write(d, AMAX, a_val)
        r2 == write(r1.d, DMAX, d_val)
        r3 == write(r2.d, D1, d_val)
        r4 == write(r3.d, A1, a_val)
    IN  IF r1.res # SUCCESS THEN Result(r4.d, r1.res, NoValue)
        ELSE IF r2.res # SUCCESS THEN Result(r4.d, r2.res, NoValue)
        ELSE IF r3.res # SUCCESS THEN Result(r4.d, r3.res, NoValue)
        ELSE r4

\* mutant: the two acceleration registers first, then the two deceleration registers
set_linear_acceleration_accelerations_first(d, acceleration, decel) ==
    LET a_val == accel_to_register(acceleration)
        d_val == FromNat(Clamp(accel_to_register(decel)[2], 1, 65535))
    IN  and_then(and_then(and_then(write(d, AMAX, a_val),
                                   LAMBDA d1 : write(d1, A1, a_val)),
                          LAMBDA d2 : write(d2, DMAX, d_val)),
                 LAMBDA d3 : write(d3, D1, d_val))

set_linear_acceleration(d, acceleration, decel) ==
    LET a_val == accel_to_register(acceleration)
        d_val == FromNat(Clamp(accel_to_register(decel)[2], 1, 65535))
    IN  and_then(and_then(and_then(write(d, AMAX, a_val),
                                   LAMBDA d1 : write(d1, DMAX, d_val)),
                          LAMBDA d2 : write(d2, D1, d_val)),
                 LAMBDA d3 : write(d3, A1, a_val))

\* mutant: the order of set_linear_acceleration is used
set_advanced_acceleration_linear_order(d, start_accel, max_accel, max_decel, stop_decel) ==
    LET clamped_d1_val == FromNat(Clamp(accel_to_register(stop_decel)[2], 1, 65535))
    IN  and_then(and_then(and_then(write(d, AMAX, accel_to_register(max_accel)),
                                   LAMBDA d1 : write(d1, DMAX, accel_to_register(max_decel))),
                          LAMBDA d2 : write(d2, D1, clamped_d1_val)),
                 LAMBDA d3 : write(d3, A1, accel_to_register(start_accel)))

set_advanced_acceleration(d, start_accel, max_accel, max_decel, stop_decel) ==
    LET clamped_d1_val == FromNat(Clamp(accel_to_register(stop_decel)[2], 1, 65535))
    IN  and_then(and_then(and_then(write(d, A1, accel_to_register(start_accel)),
                                   LAMBDA d1 : write(d1, AMAX, accel_to_register(max_accel))),
                          LAMBDA d2 : write(d2, DMAX, accel_to_register(max_decel))),
                 LAMBDA d3 : write(d3, D1, clamped_d1_val))

hold_delay_default_value == 6

\* mutant: the hold current is written as the whole register
set_ihold_whole_register(d, current) ==
    and_then(write(d, IHOLD_IRUN, FromNat(current_to_cs(current))),
             LAMBDA d1 : write_field(d1, i_hold_delay_t, FromNat(hold_delay_default_value)))

set_ihold(d, current) ==
    and_then(write_field(d, i_hold_t, FromNat(current_to_cs(current))),
             LAMBDA d1 : write_field(d1, i_hold_delay_t, FromNat(hold_delay_default_value)))

\* inputs: speeds in RPM, positions in microsteps, accelerations in pulses/s^2
\* (0 and 5000000 reach the two ends of the clamp), currents in mA
Velocities == {-60, 0, 60}
Steps == {5000, -1}
MaxSpeeds == {100}
LinearAccels == {<<10000, 0>>}
AdvancedAccels == {<<1000, 10000, 5000, 0>>, <<1000, 10000, 5000, 5000000>>}
Currents == {1000}

\* the writes of an operation (counted from 1) on which the transport fails
TwoWriteFails == {{}, {1}, {2}}
ThreeWriteFails == {{}, {1}, {2}, {3}}
FourWriteFails == {{}, {1}, {2}, {3}, {4}}

Rotate ==
    \E v \in Velocities, f \in TwoWriteFails :
        Return("rotate", RAMPMODE.address, <<v>>, rotate(Driver(f), v))

MoveTo ==
    \E step \in Steps, max_speed \in MaxSpeeds, f \in ThreeWriteFails :
        Return("move_to", RAMPMODE.address, <<step, max_speed>>,
               move_to(Driver(f), step, max_speed))

SetLinearAcceleration ==
    \E a \in LinearAccels, f \in FourWriteFails :
        Return("set_linear_acceleration", AMAX.address, a,
               set_linear_acceleration(Driver(f), a[1], a[2]))

SetAdvancedAcceleration ==
    \E a \in AdvancedAccels, f \in FourWriteFails :
        Return("set_advanced_acceleration", A1.address, a,
               set_advanced_acceleration(Driver(f), a[1], a[2], a[3], a[4]))

SetIhold ==
    \E c \in Currents, f \in TwoWriteFails :
        Return("set_ihold", IHOLD_IRUN.address, <<c>>, set_ihold(Driver(f), c))

MotionNext ==
    Rotate \/ MoveTo \/ SetLinearAcceleration \/ SetAdvancedAcceleration \/ SetIhold

\* no operation of TMC5160Motion modelled here reads the chip: one chip image is enough
MotionInit == Init /\ m_register_values = HwImage(0)

MotionSpec == MotionInit /\ [][MotionNext]_vars

----------------------------------------------------------------------------
(* Vocabulary of the Sequencer properties                                  *)

\* the register a transferred frame writes, and the frame that writes v to R
WrittenAddress(e) == e.tx_data[1] - 128
WritesTo(e, R, v) ==
    e.tx_data[1] = R.address + 128 /\ FrameValue(e.tx_data) = v

\* the number of register writes of each multi-write operation
WriteCount ==
    [rotate |-> 2, move_to |-> 3, set_linear_acceleration |-> 4,
     set_advanced_acceleration |-> 4, set_ihold |-> 2]
MultiWriteOps == DOMAIN WriteCount

Magnitude(v) == IF v < 0 THEN -v ELSE v

(* C17: in every Sequencer operation that writes more than one register    *)
(* (rotate, move_to, set_linear_acceleration, set_advanced_acceleration,   *)
(* set_ihold) the first failed write aborts the sequence: no frame of a    *)
(* later write of the operation is transmitted and the operation returns   *)
(* the error of that first failure.                                        *)
C17_FirstFailureAborts ==
    ret.op \in MultiWriteOps
       => LET T == TransfersOf(m_transactions)
          IN  /\ Len(T) >= 1 /\ Len(T) <= WriteCount[ret.op]
              /\ Bracketed(m_transactions)
              /\ \A i \in 1..Len(T) : T[i].tx_data[1] >= 128
              /\ \A i \in 1..(Len(T) - 1) : T[i].ok
              /\ IF T[Len(T)].ok
                 THEN Len(T) = WriteCount[ret.op] /\ ret.res = SUCCESS
                 ELSE ret.res = SPI_TRANSFER_FAILED

C17_Witness ==
    /\ ret.op = "set_linear_acceleration" /\ ret.res = SPI_TRANSFER_FAILED
    /\ Len(TransfersOf(m_transactions)) = 2
    /\ WrittenAddress(TransfersOf(m_transactions)[2]) = DMAX.address
    /\ ~TransfersOf(m_transactions)[2].ok
    /\ m_register_cache[D1.address] = Zero

(* C18: rotate(v) writes RAMPMODE before VMAX: the mode is VELOCITY_POS (1) *)
(* when v >= 0, zero included, and VELOCITY_NEG (2) when v < 0; the VMAX   *)
(* value written afterwards is the conversion of |v|, so rotate(-x) and    *)
(* rotate(x) write the same VMAX value.                                    *)
C18_RotateModeThenMagnitude ==
    ret.op = "rotate"
       => LET T == TransfersOf(m_transactions)
              v == ret.arg[1]
              opposite == TransfersOf(rotate(Driver({}), -v).d.log)
          IN  /\ WritesTo(T[1], RAMPMODE, IF v >= 0 THEN <<0, 1>> ELSE <<0, 2>>)
              /\ T[1].ok
                    => /\ Len(T) = 2
                       /\ WritesTo(T[2], VMAX, rpm_to_vmax(Magnitude(v)))
                       /\ T[2].tx_data = opposite[2].tx_data
                       /\ Magnitude(v) = 60 => FrameValue(T[2].tx_data) = <<1, 6046>>
              /\ ~T[1].ok => Len(T) = 1

C18_Witness ==
    /\ ret.op = "rotate" /\ ret.arg = <<-60>> /\ ret.res = SUCCESS
    /\ WritesTo(TransfersOf(m_transactions)[1], RAMPMODE, <<0, 2>>)
    /\ WritesTo(TransfersOf(m_transactions)[2], VMAX, <<1, 6046>>)

(* C19: a successful move_to(position, max_speed) transmits exactly three  *)
(* write frames in this order: RAMPMODE = POSITIONING (0), VSTART = the    *)
(* conversion of max_speed, XTARGET = position; XTARGET is never written   *)
(* before the mode and speed writes of the same call have succeeded.       *)
C19_MoveToOrder ==
    ret.op = "move_to"
       => LET T == TransfersOf(m_transactions)
          IN  /\ ret.res = SUCCESS
                    => /\ Len(T) = 3
                       /\ WritesTo(T[1], RAMPMODE, <<0, 0>>)
                       /\ WritesTo(T[2], VSTART, rpm_to_vmax(ret.arg[2]))
                       /\ WritesTo(T[3], XTARGET, ToUint32(ret.arg[1]))
                       /\ ret.arg[2] = 100 => FrameValue(T[2].tx_data) = <<1, 53768>>
                       /\ ret.arg[1] = -1 => FrameValue(T[3].tx_data) = <<65535, 65535>>
              /\ \A i \in 1..Len(T) :
                    WrittenAddress(T[i]) = XTARGET.address
                       => /\ i = 3
                          /\ T[1].ok /\ WrittenAddress(T[1]) = RAMPMODE.address
                          /\ T[2].ok /\ WrittenAddress(T[2]) = VSTART.address

C19_Witness ==
    /\ ret.op = "move_to" /\ ret.arg = <<5000, 100>> /\ ret.res = SUCCESS
    /\ Len(TransfersOf(m_transactions)) = 3
    /\ WritesTo(TransfersOf(m_transactions)[3], XTARGET, <<0, 5000>>)
    /\ m_register_cache[RAMPMODE.address] = <<0, 0>>
    /\ m_register_cache[VMAX.address] = <<1, 6046>>

\* accelerations around the two ends of the clamp and between them
AccelSamples == {0, 1, 65, 66, 1000, 10000, 4291000, 4292000, 5000000, 16000000}

(* C20: set_advanced_acceleration(a1, amax, dmax, d1) writes the registers *)
(* in the order A1, AMAX, DMAX, D1, stops at the first failed write and    *)
(* returns its error, and the value written to D1 is always within         *)
(* [1, 65535]; with a stop-deceleration input of 0 it writes 1, never 0.   *)
C20_AdvancedAccelerationOrder ==
    ret.op = "set_advanced_acceleration"
       => LET T == TransfersOf(m_transactions)
              order == <<A1, AMAX, DMAX, D1>>
          IN  /\ Len(T) >= 1 /\ Len(T) <= 4
              /\ \A i \in 1..Len(T) : WrittenAddress(T[i]) = order[i].address
              /\ \A i \in 1..(Len(T) - 1) : T[i].ok
              /\ IF T[Len(T)].ok THEN Len(T) = 4 /\ ret.res = SUCCESS
                 ELSE ret.res = SPI_TRANSFER_FAILED
              /\ Len(T) = 4
                    => /\ FrameValue(T[4].tx_data)[1] = 0
                       /\ FrameValue(T[4].tx_data)[2] \in 1..65535
                       /\ ret.arg[4] = 0 => FrameValue(T[4].tx_data) = <<0, 1>>
              /\ \A a \in AccelSamples :
                    LET all == TransfersOf(
                                   set_advanced_acceleration(Driver({}), 1000, 1000, 1000, a).d.log)
                    IN  /\ FrameValue(all[4].tx_data)[1] = 0
                        /\ FrameValue(all[4].tx_data)[2] \in 1..65535

C20_Witness ==
    /\ ret.op = "set_advanced_acceleration" /\ ret.arg[4] = 0 /\ ret.res = SUCCESS
    /\ Len(TransfersOf(m_transactions)) = 4
    /\ WritesTo(TransfersOf(m_transactions)[1], A1, <<0, 15>>)
    /\ WritesTo(TransfersOf(m_transactions)[4], D1, <<0, 1>>)
    /\ m_register_cache[D1.address] = <<0, 1>>

----------------------------------------------------------------------------
(* TMC5160: the driver facade and its two configuration sequences          *)

toff_t == Field(CHOPCONF, 0, 4)
hstrt_t == Field(CHOPCONF, 4, 3)
hend_t == Field(CHOPCONF, 7, 4)
tbl_t == Field(CHOPCONF, 15, 2)
chm_t == Field(CHOPCONF, 14, 1)

\* TMC5160::Settings the driver was constructed with: currents in mA, velocities
\* in RPM, accelerations in Hz/s; the clock, steps and sense resistor are those
\* of the Converter above
m_settings ==
    [run_current |-> 1000, hold_current |-> 500, hold_delay |-> 6, power_down_delay |-> 10,
     v_start |-> 0, v_stop |-> 0, v_1 |-> 60, v_max |-> 100,
     a_1 |-> 0, a_max |-> 5000000, d_max |-> 10000, d_1 |-> 0,
     stealth_chop_enabled |-> TRUE, toff |-> 3, hstrt |-> 4, hend |-> 1, tbl |-> 2]

\* rpm_to_vmax of a velocity outside [0, 2^32): the conversion of the double to
\* uint32_t is undefined, `undefined` is the value the build produces for it
rpm_to_vmax_or(rpm, undefined) == IF rpm >= 0 THEN rpm_to_vmax(rpm) ELSE undefined

\* mutant: the converted value is written as it is
set_stop_velocity_no_floor(d, speed, undefined) ==
    write(d, VSTOP, rpm_to_vmax_or(speed, undefined))

\* std::max(min_value, rpm_to_vmax(speed))
set_stop_velocity(d, speed, undefined) ==
    LET converted == rpm_to_vmax_or(speed, undefined)
        val == IF converted = Zero THEN FromNat(1) ELSE converted
    IN  write(d, VSTOP, val)

set_ramp_transition_velocity(d, speed) == write(d, V1, rpm_to_vmax(speed))

set_stealth_chop(d, state) == write_field(d, chm_t, IF state THEN FromNat(1) ELSE Zero)

\* one argument of an is_all_ok call: write<R>(value) or write_field<F>(value)
WriteCall(R, value) == [field |-> FALSE, target |-> R, value |-> value]
FieldCall(F, value) == [field |-> TRUE, target |-> F, value |-> value]
Call(d, c) ==
    IF c.field THEN write_field(d, c.target, c.value) ELSE write(d, c.target, c.value)

\* The arguments of a call are evaluated in an order the language leaves to the
\* build: first to last or last to first.
ArgumentOrders == {"left_to_right", "right_to_left"}
Reverse(s) == [i \in 1..Len(s) |-> s[Len(s) + 1 - i]]
Evaluated(calls, order) == IF order = "left_to_right" THEN calls ELSE Reverse(calls)

\* mutant: the arguments after a failed one are not evaluated
RECURSIVE EvaluateAll_until_failure(_, _, _, _)
EvaluateAll_until_failure(d, calls, k, ok) ==
    IF k > Len(calls) \/ ~ok THEN [d |-> d, ok |-> ok]
    ELSE LET r == Call(d, calls[k])
         IN  IF r.res = SUCCESS THEN EvaluateAll_until_failure(r.d, calls, k + 1, ok)
             ELSE EvaluateAll_until_failure(r.d, calls, k + 1, FALSE)

\* every argument is evaluated, whatever the earlier ones returned, before
\* is_all_ok folds them: ok = (... && args.has_value())
RECURSIVE EvaluateAll(_, _, _, _)
EvaluateAll(d, calls, k, ok) ==
    IF k > Len(calls) THEN [d |-> d, ok |-> ok]
    ELSE LET r == Call(d, calls[k])
         IN  IF r.res = SUCCESS THEN EvaluateAll(r.d, calls, k + 1, ok)
             ELSE EvaluateAll(r.d, calls, k + 1, FALSE)

\* if (!is_all_ok(calls...)) return tl::unexpected(SPI_TRANSFER_FAILED)
is_all_ok(d, calls, order) ==
    LET all == EvaluateAll(d, Evaluated(calls, order), 1, TRUE)
    IN  Result(all.d, IF all.ok THEN SUCCESS ELSE SPI_TRANSFER_FAILED, NoValue)

DefaultConfiguration ==
    <<WriteCall(VSTOP, FromNat(100)), WriteCall(V1, FromNat(40000)),
      WriteCall(AMAX, FromNat(10000)), WriteCall(DMAX, FromNat(10000)),
      WriteCall(A1, FromNat(2000)), WriteCall(D1, FromNat(10000)),
      WriteCall(TWPOWER_DOWN, FromNat(10)),
      FieldCall(i_hold_delay_t, FromNat(6)), FieldCall(i_hold_t, FromNat(4)),
      FieldCall(i_run_t, FromNat(16)),
      FieldCall(toff_t, FromNat(3)), FieldCall(hstrt_t, FromNat(4)),
      FieldCall(hend_t, FromNat(1)), FieldCall(tbl_t, FromNat(2)),
      WriteCall(XTARGET, Zero)>>

\* mutant: the ramp mode is written before the configuration
apply_default_configuration_mode_first(d, order) ==
    LET r == write(d, RAMPMODE, FromNat(POSITIONING))
    IN  IF r.res # SUCCESS THEN r ELSE is_all_ok(r.d, DefaultConfiguration, order)

\* if (!is_all_ok(...)) return unexpected; return write<RAMPMODE>(POSITIONING)
apply_default_configuration(d, order) ==
    LET r == is_all_ok(d, DefaultConfiguration, order)
    IN  IF r.res # SUCCESS THEN r ELSE write(r.d, RAMPMODE, FromNat(POSITIONING))

CurrentCalls ==
    <<FieldCall(i_run_t, FromNat(current_to_cs(m_settings.run_current))),
      FieldCall(i_hold_t, FromNat(current_to_cs(m_settings.hold_current))),
      FieldCall(i_hold_delay_t, FromNat(m_settings.hold_delay))>>

ChopperCalls ==
    <<FieldCall(toff_t, FromNat(m_settings.toff)), FieldCall(hstrt_t, FromNat(m_settings.hstrt)),
      FieldCall(hend_t, ToUint32(m_settings.hend)), FieldCall(tbl_t, FromNat(m_settings.tbl))>>

PositionResetCalls == <<WriteCall(XTARGET, Zero), WriteCall(XACTUAL, Zero)>>

\* the steps of apply_settings, in the order of the code
SettingsSequence ==
    <<"set_ramp_mode", "set_start_speed", "set_stop_velocity",
      "set_ramp_transition_velocity", "set_max_velocity", "set_advanced_acceleration",
      "currents", "power_down_delay", "chopper", "set_stealth_chop", "position_reset">>

SettingsStep(d, step, order) ==
    CASE step = "set_ramp_mode" -> write(d, RAMPMODE, FromNat(POSITIONING))
      [] step = "set_start_speed" -> set_start_speed(d, m_settings.v_start)
      [] step = "set_stop_velocity" -> set_stop_velocity(d, m_settings.v_stop, Zero)
      [] step = "set_ramp_transition_velocity"
            -> set_ramp_transition_velocity(d, m_settings.v_1)
      [] step = "set_max_velocity" -> set_max_velocity(d, m_settings.v_max)
      [] step = "set_advanced_acceleration"
            -> set_advanced_acceleration(d, m_settings.a_1, m_settings.a_max,
                                         m_settings.d_max, m_settings.d_1)
      [] step = "currents" -> is_all_ok(d, CurrentCalls, order)
      [] step = "power_down_delay"
            -> write(d, TWPOWER_DOWN, FromNat(m_settings.power_down_delay))
      [] step = "chopper" -> is_all_ok(d, ChopperCalls, order)
      [] step = "set_stealth_chop" -> set_stealth_chop(d, m_settings.stealth_chop_enabled)
      [] step = "position_reset" -> is_all_ok(d, PositionResetCalls, order)

\* each step is  if (const auto res{step}; !res) return res  (or return
\* tl::unexpected(SPI_TRANSFER_FAILED) after is_all_ok): the steps after a
\* failed one do not run
RECURSIVE SettingsSteps(_, _, _, _)
SettingsSteps(r, steps, k, order) ==
    IF k > Len(steps) \/ r.res # SUCCESS THEN r
    ELSE SettingsSteps(SettingsStep(r.d, steps[k], order), steps, k + 1, order)

\* mutant: the ramp mode is written once everything else is
apply_settings_mode_last(d, order) ==
    SettingsSteps(Result(d, SUCCESS, NoValue),
                  Tail(SettingsSequence) \o <<"set_ramp_mode">>, 1, order)

apply_settings(d, order) ==
    SettingsSteps(Result(d, SUCCESS, NoValue), SettingsSequence, 1, order)

\* the writes apply_settings makes when none fails, and the transfers (counted
\* from 1) on which the transport fails: none, or any single one
ApplySettingsWrites ==
    1 + 4 + 4 + Len(CurrentCalls) + 1 + Len(ChopperCalls) + 1 + Len(PositionResetCalls)
ApplyFails == {{}} \cup {{k} : k \in 1..ApplySettingsWrites}
DefaultFails == {{}} \cup {{k} : k \in 1..(Len(DefaultConfiguration) + 1)}

ApplySettings ==
    \E order \in ArgumentOrders, f \in ApplyFails :
        Return("apply_settings", RAMPMODE.address, <<order>>,
               apply_settings(Driver(f), order))

ApplyDefaultConfiguration ==
    \E order \in ArgumentOrders, f \in DefaultFails :
        Return("apply_default_configuration", RAMPMODE.address, <<order>>,
               apply_default_configuration(Driver(f), order))

ApplyNext == ApplySettings \/ ApplyDefaultConfiguration

ApplySpec == MotionInit /\ [][ApplyNext]_vars

----------------------------------------------------------------------------
(* TMC5160Motion: single-register commands                                 *)

\* mutant: the motor is stopped by a rotation at zero speed
stop_by_rotate(d) == rotate(d, 0)

stop(d) == write(d, VMAX, Zero)

set_irun(d, current) == write_field(d, i_run_t, FromNat(current_to_cs(current)))

\* mutant: the factor is only kept from going below zero
set_global_scaling_no_upper_clamp(d, factor) ==
    write(d, GLOBAL_SCALER, FromNat((Clamp(factor, 0, factor + 1) * 256) \div 1000))

\* factor in thousandths. The float nearest to n/1000 times 256 is exact, and
\* its integer part is that of 256 * n / 1000: 256 * n / 1000 is an integer only
\* for n a multiple of 125, where n/1000 is itself a float.
set_global_scaling(d, factor) ==
    LET safe_factor == Clamp(factor, 0, 1000)
        register_val == (safe_factor * 256) \div 1000
    IN  write(d, GLOBAL_SCALER, FromNat(register_val))

\* run currents in mA; scaling factors in thousandths, those of the tests
\* (0.0, 1.0, 0.5, 2.0, -0.5) and one just below 1.0
RunCurrents == {1000, 2000}
Factors == {-500, 0, 500, 999, 1000, 2000}

Stop ==
    \E f \in WriteFails :
        Return("stop", VMAX.address, NoValue, stop(Driver(f)))

SetIrun ==
    \E c \in RunCurrents, f \in WriteFails :
        Return("set_irun", IHOLD_IRUN.address, <<c>>, set_irun(Driver(f), c))

SetGlobalScaling ==
    \E factor \in Factors, f \in WriteFails :
        Return("set_global_scaling", GLOBAL_SCALER.address, <<factor>>,
               set_global_scaling(Driver(f), factor))

CommandNext == Stop \/ Rotate \/ SetIrun \/ SetIhold \/ SetGlobalScaling

CommandSpec == MotionInit /\ [][CommandNext]_vars

----------------------------------------------------------------------------
(* The operations that program the acceleration phases and the stop speed  *)

\* mutant: the float clamp of the converter is left out below 1
set_acceleration_no_floor(d, acceleration) ==
    write(d, AMAX, IF acceleration <= 0 THEN Zero ELSE accel_to_register(acceleration))

set_acceleration(d, acceleration) == write(d, AMAX, accel_to_register(acceleration))

\* accelerations in Hz/s: negative, zero, in range, far above the range;
\* stop speeds in RPM, -5 RPM has no uint32_t conversion
Accelerations == {-5, 0, 10000, 2000000000}
StopSpeeds == {-5, 0, 60}

\* values a build produces for the conversion of a negative double to uint32_t:
\* 0, and 2^32 - 5965 (what x86-64 gives for -5 RPM)
UndefinedConversions == {Zero, <<65535, 59571>>}

SetAcceleration ==
    \E a \in Accelerations, f \in WriteFails :
        Return("set_acceleration", AMAX.address, <<a>>, set_acceleration(Driver(f), a))

SetStopVelocity ==
    \E speed \in StopSpeeds, undefined \in UndefinedConversions, f \in WriteFails :
        Return("set_stop_velocity", VSTOP.address, <<speed>>,
               set_stop_velocity(Driver(f), speed, undefined))

AccelNext ==
    \/ SetAcceleration
    \/ SetStopVelocity
    \/ SetLinearAcceleration
    \/ SetAdvancedAcceleration

AccelSpec == MotionInit /\ [][AccelNext]_vars

----------------------------------------------------------------------------
(* TMC5160Motion: position and velocity read back from the chip            *)

\* A float is <<m, e>>, the number m * 2^e with 2^23 <= m < 2^24, or <<0, 0>>.
\* Round24(n, e, sticky) is the float nearest to n * 2^e plus, when sticky, a
\* fraction of 2^e below one: round to nearest, ties to even.
Round24(n, e, sticky) ==
    LET b == BitLength(n)
    IN  IF n = 0 THEN <<0, 0>>
        ELSE IF b <= 24 THEN <<n * (2 ^ (24 - b)), e - (24 - b)>>
        ELSE LET s == b - 24
                 q == n \div (2 ^ s)
                 r == n % (2 ^ s)
                 half == 2 ^ (s - 1)
                 up == r > half \/ (r = half /\ (sticky \/ q % 2 = 1))
             IN  IF up /\ q + 1 = 2 ^ 24 THEN <<2 ^ 23, e + s + 1>>
                 ELSE <<IF up THEN q + 1 ELSE q, e + s>>

\* f * 12000000.0f: 12000000 = 46875 * 2^8, the 40-bit product is formed in two halves
TimesClock(f) ==
    LET mh == f[1] \div 4096
        ml == f[1] % 4096
        high == mh * 46875 + (ml * 46875) \div 4096
        low == (ml * 46875) % 4096
    IN  IF f[1] = 0 THEN f ELSE Round24(high, f[2] + 20, low # 0)

\* f / 51200.0f: 51200 = 25 * 2^11
OverStepsPerTurn(f) ==
    IF f[1] = 0 THEN f
    ELSE Round24((f[1] * 64) \div 25, f[2] - 17, (f[1] * 64) % 25 # 0)

\* vmax below 2^31
vmax_to_rpm(vmax) ==
    LET scale_exponent == 24
        as_float == Round24(vmax, 0, FALSE)
        product == TimesClock(as_float)
        v_hz == IF product[1] = 0 THEN product ELSE <<product[1], product[2] - scale_exponent>>
        times_sixty == Round24(v_hz[1] * 60, v_hz[2], FALSE)
    IN  OverStepsPerTurn(times_sixty)

\* static_cast<int32_t> of a uint32_t
ToInt32(v) == IF v[1] >= 32768 THEN (v[1] - 65536) * 65536 + v[2] ELSE v[1] * 65536 + v[2]

vactual_sign_bit == <<128, 0>>
vactual_sign_extension == <<65280, 0>>

\* mutant: the position is taken from the shadow cache
get_actual_motor_position_from_cache(d) ==
    Result(d, SUCCESS, ToInt32(d.cache[XACTUAL.address]))

get_actual_motor_position(d) ==
    LET r == read(d, XACTUAL)
    IN  IF r.res # SUCCESS THEN Result(r.d, r.res, NoValue)
        ELSE Result(r.d, SUCCESS, ToInt32(r.value))

\* mutant: bit 23 is not extended into the upper byte
get_actual_velocity_no_sign_extension(d) ==
    LET r == read(d, VACTUAL)
        signed_val == ToInt32(r.value)
    IN  IF r.res # SUCCESS THEN Result(r.d, r.res, NoValue)
        ELSE Result(r.d, SUCCESS, vmax_to_rpm(IF signed_val < 0 THEN -signed_val ELSE signed_val))

\* std::abs of INT32_MIN is undefined; the chip's VACTUAL never holds 0x80000000
get_actual_velocity(d) ==
    LET r == read(d, VACTUAL)
        val == r.value
        signed_val == IF And32(val, vactual_sign_bit) # Zero
                      THEN ToInt32(Or32(val, vactual_sign_extension))
                      ELSE ToInt32(val)
    IN  IF r.res # SUCCESS THEN Result(r.d, r.res, NoValue)
        ELSE Result(r.d, SUCCESS, vmax_to_rpm(IF signed_val < 0 THEN -signed_val ELSE signed_val))

set_actual_motor_position(d, value) == write(d, XACTUAL, ToUint32(value))

\* what the tests put in the chip's XACTUAL: 54321, 0xFFFFFFFF, and the two
\* values next to the sign change, 0x7FFFFFFF and 0x80000001
ChipPositions == {<<0, 54321>>, <<65535, 65535>>, <<32767, 65535>>, <<32768, 1>>}

\* and in its 24-bit VACTUAL: 0x10000 and 0x800000 (the tests), 1000 and -1000,
\* -65536, 0
ChipVelocities == {<<1, 0>>, <<128, 0>>, <<0, 1000>>, <<255, 64536>>, <<255, 0>>, Zero}

PositionsToSet == {12345}

\* MockSpi::set_register_value: the chip's register takes a new value
SetChipRegister ==
    \E R \in {XACTUAL, VACTUAL} :
        \E value \in (IF R = XACTUAL THEN ChipPositions ELSE ChipVelocities) :
            /\ m_register_values' = [m_register_values EXCEPT ![R.address] = value]
            /\ m_transactions' = <<>>
            /\ ret' = [op |-> "set_register_value", address |-> R.address, arg |-> value,
                       res |-> SUCCESS, value |-> NoValue]
            /\ UNCHANGED <<m_register_cache, m_status_byte, m_pending_response,
                           m_selected, last_write>>

GetActualMotorPosition ==
    \E f \in ReadFails :
        Return("get_actual_motor_position", XACTUAL.address, NoValue,
               get_actual_motor_position(Driver(f)))

GetActualVelocity ==
    \E f \in ReadFails :
        Return("get_actual_velocity", VACTUAL.address, NoValue,
               get_actual_velocity(Driver(f)))

SetActualMotorPosition ==
    \E value \in PositionsToSet, f \in WriteFails :
        Return("set_actual_motor_position", XACTUAL.address, <<value>>,
               set_actual_motor_position(Driver(f), value))

ReadbackNext ==
    \/ SetChipRegister
    \/ GetActualMotorPosition
    \/ GetActualVelocity
    \/ SetActualMotorPosition
    \/ Read

ReadbackSpec == MotionInit /\ [][ReadbackNext]_vars

----------------------------------------------------------------------------
(* Vocabulary of the configuration properties                              *)

\* the registers a frame of apply_settings may address, by its position on the
\* bus: the frames of one is_all_ok call form a group whose inner order the
\* build chooses
SettingsOrder ==
    <<{RAMPMODE}, {VSTART}, {VSTOP}, {V1}, {VMAX}, {A1}, {AMAX}, {DMAX}, {D1},
      {IHOLD_IRUN}, {IHOLD_IRUN}, {IHOLD_IRUN}, {TWPOWER_DOWN},
      {CHOPCONF}, {CHOPCONF}, {CHOPCONF}, {CHOPCONF}, {CHOPCONF},
      {XTARGET, XACTUAL}, {XTARGET, XACTUAL}>>

AddressesOf(Rs) == {R.address : R \in Rs}

\* the value of the w-bit field at bit s in the frame e
FrameField(e, s, w) == FieldNat(FrameValue(e.tx_data), s, w)

(* C21: apply_settings transmits the RAMPMODE = POSITIONING write first,   *)
(* before any other frame, and then its writes group by group: VSTART,     *)
(* VSTOP, V1, VMAX; then A1, AMAX, DMAX, D1; then the three IHOLD_IRUN     *)
(* current fields; then TPOWERDOWN; then the four CHOPCONF fields toff,    *)
(* hstrt, hend, tbl; then the chm field; then the XTARGET and XACTUAL      *)
(* resets to 0. The frames of a call that stopped early are a prefix of    *)
(* that sequence.                                                          *)
C21_SettingsGroupOrder ==
    ret.op = "apply_settings"
       => LET T == TransfersOf(m_transactions)
          IN  /\ Len(T) >= 1 /\ Len(T) <= Len(SettingsOrder)
              /\ WritesTo(T[1], RAMPMODE, FromNat(POSITIONING))
              /\ \A i \in 1..Len(T) :
                    WrittenAddress(T[i]) \in AddressesOf(SettingsOrder[i])
              /\ ret.res = SUCCESS
                    => /\ Len(T) = Len(SettingsOrder)
                       /\ WritesTo(T[2], VSTART, rpm_to_vmax(m_settings.v_start))
                       /\ WritesTo(T[5], VMAX, rpm_to_vmax(m_settings.v_max))
                       /\ WritesTo(T[6], A1, accel_to_register(m_settings.a_1))
                       /\ WritesTo(T[9], D1, accel_to_register(m_settings.d_1))
                       /\ FrameField(T[12], 0, 5) = current_to_cs(m_settings.hold_current)
                       /\ FrameField(T[12], 8, 5) = current_to_cs(m_settings.run_current)
                       /\ FrameField(T[12], 16, 4) = m_settings.hold_delay
                       /\ WritesTo(T[13], TWPOWER_DOWN, FromNat(m_settings.power_down_delay))
                       /\ FrameField(T[17], 0, 4) = m_settings.toff
                       /\ FrameField(T[17], 4, 3) = m_settings.hstrt
                       /\ FrameField(T[17], 7, 4) = m_settings.hend
                       /\ FrameField(T[17], 15, 2) = m_settings.tbl
                       /\ FrameField(T[18], 14, 1) = 1
                       /\ Outside(FrameValue(T[18].tx_data), 14, 1)
                             = Outside(FrameValue(T[17].tx_data), 14, 1)
                       /\ WrittenAddress(T[19]) # WrittenAddress(T[20])
                       /\ FrameValue(T[19].tx_data) = Zero
                       /\ FrameValue(T[20].tx_data) = Zero

C21_Witness ==
    /\ ret.op = "apply_settings" /\ ret.arg = <<"right_to_left">> /\ ret.res = SUCCESS
    /\ Len(TransfersOf(m_transactions)) = 20
    /\ WritesTo(TransfersOf(m_transactions)[1], RAMPMODE, Zero)
    /\ WritesTo(TransfersOf(m_transactions)[7], AMAX, <<0, 65535>>)
    /\ WritesTo(TransfersOf(m_transactions)[20], XTARGET, Zero)

(* C22: in apply_settings the first failed write stops the whole sequence: *)
(* no frame of any later write is transmitted, also inside the             *)
(* current-field, chopper-field and position-reset groups, and the error   *)
(* returned is SPI_TRANSFER_FAILED.                                        *)
C22_FirstFailureStopsSettings ==
    ret.op = "apply_settings"
       => LET T == TransfersOf(m_transactions)
          IN  /\ \A i \in 1..(Len(T) - 1) : T[i].ok
              /\ HasFailedTransfer(m_transactions) => ret.res = SPI_TRANSFER_FAILED

(* C23: in a successful apply_default_configuration the write RAMPMODE =   *)
(* POSITIONING (0) is the final frame transmitted: every other             *)
(* configuration write of the call (VSTOP = 100, AMAX = 10000,             *)
(* TPOWERDOWN = 10, the IHOLD_IRUN and CHOPCONF fields, XTARGET = 0)       *)
(* precedes it on the bus.                                                 *)
C23_DefaultsThenRampMode ==
    (ret.op = "apply_default_configuration" /\ ret.res = SUCCESS)
       => LET T == TransfersOf(m_transactions)
              n == Len(DefaultConfiguration)
          IN  /\ Len(T) = n + 1
              /\ WritesTo(T[n + 1], RAMPMODE, FromNat(POSITIONING))
              /\ \A i \in 1..n : WrittenAddress(T[i]) # RAMPMODE.address
              /\ \A c \in {VSTOP, V1, AMAX, DMAX, A1, D1, TWPOWER_DOWN, XTARGET} :
                    \E i \in 1..n : WrittenAddress(T[i]) = c.address
              /\ \E i \in 1..n : WritesTo(T[i], VSTOP, FromNat(100))
              /\ \E i \in 1..n : WritesTo(T[i], AMAX, FromNat(10000))
              /\ \E i \in 1..n : WritesTo(T[i], TWPOWER_DOWN, FromNat(10))
              /\ \E i \in 1..n : WritesTo(T[i], XTARGET, Zero)
              /\ Cardinality({i \in 1..n : WrittenAddress(T[i]) = IHOLD_IRUN.address}) = 3
              /\ Cardinality({i \in 1..n : WrittenAddress(T[i]) = CHOPCONF.address}) = 4
              /\ m_register_cache[IHOLD_IRUN.address] = <<6, 4100>>
              /\ FieldNat(m_register_cache[CHOPCONF.address], 0, 4) = 3
              /\ FieldNat(m_register_cache[CHOPCONF.address], 15, 2) = 2

C23_Witness ==
    /\ ret.op = "apply_default_configuration" /\ ret.arg = <<"right_to_left">>
    /\ ret.res = SUCCESS
    /\ Len(TransfersOf(m_transactions)) = 16
    /\ WritesTo(TransfersOf(m_transactions)[1], XTARGET, Zero)
    /\ WritesTo(TransfersOf(m_transactions)[15], VSTOP, <<0, 100>>)
    /\ WritesTo(TransfersOf(m_transactions)[16], RAMPMODE, Zero)

----------------------------------------------------------------------------
(* Properties of the single-register commands                              *)

(* C24: set_ihold(c) writes the IHOLD field with current_to_cs(c) and      *)
(* then, in the same operation, writes the hold-delay field with the fixed *)
(* value 6, leaving the IRUN field as last written; set_irun(c) writes     *)
(* only the IRUN field and leaves the IHOLD and hold-delay fields as last  *)
(* written.                                                                *)
C24_CurrentFields ==
    [][LET T == TransfersOf(m_transactions')
           before == m_register_cache[IHOLD_IRUN.address]
           after == m_register_cache'[IHOLD_IRUN.address]
           cs == current_to_cs(ret'.arg[1])
       IN  /\ ret'.op = "set_ihold"
                => /\ \A i \in 1..Len(T) : WrittenAddress(T[i]) = IHOLD_IRUN.address
                   /\ FrameField(T[1], 0, 5) = cs
                   /\ Outside(FrameValue(T[1].tx_data), 0, 5) = Outside(before, 0, 5)
                   /\ IF T[1].ok
                      THEN /\ Len(T) = 2
                           /\ FrameField(T[2], 16, 4) = 6
                           /\ FrameField(T[2], 0, 5) = cs
                           /\ FrameField(T[2], 8, 5) = FieldNat(before, 8, 5)
                           /\ Outside(FrameValue(T[2].tx_data), 16, 4)
                                 = Outside(FrameValue(T[1].tx_data), 16, 4)
                      ELSE Len(T) = 1
                   /\ FieldNat(after, 8, 5) = FieldNat(before, 8, 5)
                   /\ after = FrameValue(T[Len(T)].tx_data)
           /\ ret'.op = "set_irun"
                => /\ Len(T) = 1
                   /\ WrittenAddress(T[1]) = IHOLD_IRUN.address
                   /\ FrameField(T[1], 8, 5) = cs
                   /\ Outside(FrameValue(T[1].tx_data), 8, 5) = Outside(before, 8, 5)
                   /\ FieldNat(after, 0, 5) = FieldNat(before, 0, 5)
                   /\ FieldNat(after, 16, 4) = FieldNat(before, 16, 4)
                   /\ after = FrameValue(T[1].tx_data)]_vars

C24_Witness ==
    /\ ret.op = "set_ihold" /\ ret.arg = <<1000>> /\ ret.res = SUCCESS
    /\ Len(TransfersOf(m_transactions)) = 2
    /\ FrameValue(TransfersOf(m_transactions)[1].tx_data) = <<0, 19 * 256 + 9>>
    /\ FrameValue(TransfersOf(m_transactions)[2].tx_data) = <<6, 19 * 256 + 9>>
    /\ m_register_cache[IHOLD_IRUN.address] = <<6, 19 * 256 + 9>>

(* C27: stop() transmits exactly one frame, a write of 0 to the velocity   *)
(* target register VMAX, sets the VMAX cache slot to 0, and writes no      *)
(* other register: RAMPMODE and all other cache slots are unchanged.       *)
C27_StopWritesOnlyVmax ==
    [][ret'.op = "stop"
          => /\ Bracketed(m_transactions')
             /\ Len(TransfersOf(m_transactions')) = 1
             /\ TransfersOf(m_transactions')[1].tx_data = <<VMAX.address + 128, 0, 0, 0, 0>>
             /\ m_register_cache' = [m_register_cache EXCEPT ![VMAX.address] = Zero]]_vars

C27_Witness ==
    /\ ret.op = "stop" /\ ret.res = SUCCESS
    /\ Len(TransfersOf(m_transactions)) = 1
    /\ m_register_cache[VMAX.address] = Zero
    /\ last_write[VMAX.address] = Zero
    /\ m_register_cache[RAMPMODE.address] = FromNat(VELOCITY_NEG)
    /\ m_register_cache[GLOBAL_SCALER.address] = <<0, 128>>

(* C30: set_global_scaling(f) clamps f to [0.0, 1.0] and writes to         *)
(* GLOBAL_SCALER the integer part of the clamped factor times 256, so the  *)
(* written value is always in [0, 256]: any f <= 0 writes 0, any f >= 1    *)
(* writes 256, and 0.5 writes 128.                                         *)
C30_GlobalScalingClamped ==
    ret.op = "set_global_scaling"
       => LET T == TransfersOf(m_transactions)
              f == ret.arg[1]
              written == FrameValue(T[1].tx_data)
          IN  /\ Len(T) = 1
              /\ WrittenAddress(T[1]) = GLOBAL_SCALER.address
              /\ written[1] = 0 /\ written[2] \in 0..256
              /\ f <= 0 => written[2] = 0
              /\ f >= 1000 => written[2] = 256
              /\ f = 500 => written[2] = 128
              /\ (f >= 0 /\ f <= 1000)
                    => /\ written[2] * 1000 <= f * 256
                       /\ f * 256 < (written[2] + 1) * 1000
              /\ m_register_cache[GLOBAL_SCALER.address] = written

C30_Witness ==
    /\ ret.op = "set_global_scaling" /\ ret.arg = <<2000>> /\ ret.res = SUCCESS
    /\ TransfersOf(m_transactions)[1].tx_data = <<GLOBAL_SCALER.address + 128, 0, 0, 1, 0>>
    /\ m_register_cache[GLOBAL_SCALER.address] = <<0, 256>>

----------------------------------------------------------------------------
(* Properties of the acceleration and stop-speed writes                    *)

AccelerationRegs == {A1, AMAX, DMAX, D1}
InAccelRange(v) == v[1] = 0 /\ v[2] \in 1..65535

\* every frame of T that addresses an acceleration register carries 1..65535,
\* every frame that addresses VSTOP carries at least 1
FramesInRange(T) ==
    \A i \in 1..Len(T) :
        /\ WrittenAddress(T[i]) \in AddressesOf(AccelerationRegs)
              => InAccelRange(FrameValue(T[i].tx_data))
        /\ WrittenAddress(T[i]) = VSTOP.address => FrameValue(T[i].tx_data) # Zero

(* C28: every value that set_acceleration, set_linear_acceleration,        *)
(* set_advanced_acceleration or apply_settings writes to A1, AMAX, DMAX or *)
(* D1 lies in [1, 65535] for any input acceleration (accel_to_register(0)  *)
(* = 1, very large inputs give 65535), and every value set_stop_velocity   *)
(* writes to VSTOP is at least 1.                                          *)
C28_AccelerationsNeverZero ==
    LET T == TransfersOf(m_transactions)
    IN  /\ FramesInRange(T)
        /\ ret.op = "set_acceleration"
              => /\ Len(T) = 1 /\ WrittenAddress(T[1]) = AMAX.address
                 /\ ret.arg[1] <= 0 => FrameValue(T[1].tx_data) = <<0, 1>>
                 /\ ret.arg[1] >= 5000000 => FrameValue(T[1].tx_data) = <<0, 65535>>
        /\ ret.op = "set_stop_velocity"
              => Len(T) = 1 /\ WrittenAddress(T[1]) = VSTOP.address
        /\ ret.op \in {"set_linear_acceleration", "set_advanced_acceleration"}
              => \A i \in 1..Len(T) : WrittenAddress(T[i]) \in AddressesOf(AccelerationRegs)
        /\ \A order \in ArgumentOrders :
              LET S == TransfersOf(apply_settings(Driver({}), order).d.log)
              IN  /\ FramesInRange(S)
                  /\ WrittenAddress(S[3]) = VSTOP.address
                  /\ \A R \in AccelerationRegs : \E i \in 6..9 : WrittenAddress(S[i]) = R.address
        /\ \A a \in AccelSamples \cup Accelerations : InAccelRange(accel_to_register(a))
        /\ accel_to_register(0) = <<0, 1>>

C28_Witness ==
    /\ ret.op = "set_acceleration" /\ ret.arg = <<-5>> /\ ret.res = SUCCESS
    /\ WritesTo(TransfersOf(m_transactions)[1], AMAX, <<0, 1>>)
    /\ m_register_cache[D1.address] = <<0, 65535>>
    /\ m_register_cache[A1.address] = <<0, 15>>
    /\ m_register_cache[VSTOP.address] = <<65535, 59571>>

----------------------------------------------------------------------------
(* Properties of the values read back                                      *)

(* C25: get_actual_motor_position always reads XACTUAL (address 0x21) from *)
(* hardware and returns its 32-bit value reinterpreted as signed two's     *)
(* complement, for every 32-bit value: 0xFFFFFFFF yields -1, values below  *)
(* 2^31 are returned unchanged.                                            *)
C25_PositionIsSignedHardwareValue ==
    ret.op = "get_actual_motor_position"
       => LET T == TransfersOf(m_transactions)
              hw == m_register_values[XACTUAL.address]
          IN  /\ Len(T) >= 1
              /\ T[1].tx_data = <<33, 0, 0, 0, 0>>
              /\ IF ret.res = SUCCESS
                 THEN /\ Len(T) = 2
                      /\ ToUint32(ret.value) = hw
                      /\ hw = <<65535, 65535>> => ret.value = -1
                      /\ hw[1] < 32768 => ret.value = hw[1] * 65536 + hw[2]
                      /\ hw[1] >= 32768 => ret.value < 0
                 ELSE HasFailedTransfer(m_transactions) /\ ret.value = NoValue

C25_Witness ==
    /\ ret.op = "get_actual_motor_position" /\ ret.res = SUCCESS /\ ret.value = -1
    /\ m_register_values[XACTUAL.address] = <<65535, 65535>>
    /\ m_register_cache[XACTUAL.address] = <<0, 12345>>

\* the 24-bit register value n as a signed number, and the register value of its negative
Signed24(n) == IF n >= 2 ^ 23 THEN n - 2 ^ 24 ELSE n
Negated24(n) == (2 ^ 24 - n) % (2 ^ 24)

(* C26: get_actual_velocity reads VACTUAL from hardware, sign-extends the  *)
(* value from bit 23, takes the absolute value and converts that magnitude *)
(* to RPM; for every value the hardware can return the reported velocity   *)
(* is non-negative, and two register values that are negatives of each     *)
(* other as 24-bit signed numbers report the same velocity.                *)
C26_VelocityIsMagnitude ==
    ret.op = "get_actual_velocity"
       => LET T == TransfersOf(m_transactions)
              hw == m_register_values[VACTUAL.address]
              n == hw[1] * 65536 + hw[2]
              opposite == [Driver({}) EXCEPT !.regs[VACTUAL.address] = FromNat(Negated24(n))]
          IN  /\ Len(T) >= 1
              /\ T[1].tx_data = <<34, 0, 0, 0, 0>>
              /\ ret.res = SUCCESS
                    => /\ Len(T) = 2
                       /\ ret.value[1] >= 0
                       /\ ret.value = <<0, 0>> <=> hw = Zero
                       /\ hw[1] < 256
                             => /\ ret.value = vmax_to_rpm(IF Signed24(n) < 0 THEN -Signed24(n)
                                                            ELSE Signed24(n))
                                /\ get_actual_velocity(opposite).value = ret.value

C26_Witness ==
    /\ ret.op = "get_actual_velocity" /\ ret.res = SUCCESS
    /\ m_register_values[VACTUAL.address] = <<255, 64536>>
    /\ ret.value = <<14062500, -24>>
    /\ ret.value = vmax_to_rpm(1000)

\* the operations that read a register from the chip
ReadsHardware ==
    \/ ret.op \in {"get_actual_motor_position", "get_actual_velocity"}
    \/ ret.op = "read" /\ ret.address \in HardwareAddrs

(* C29: when all calls into one driver are serialized (each operation runs *)
(* to completion before the next starts), the two frames of a hardware     *)
(* read are adjacent on the bus, with no frame of any other operation      *)
(* between them, and the value the read returns is the value of the        *)
(* register addressed in its own frame 1, whatever operations preceded the *)
(* read.                                                                    *)
C29_ReadFramesAdjacent ==
    (ReadsHardware /\ ret.res = SUCCESS)
       => LET T == TransfersOf(m_transactions)
              addressed == m_register_values[get_address(T[1].tx_data)]
          IN  /\ Bracketed(m_transactions)
              /\ Len(m_transactions) = 6
              /\ T[1].tx_data = ReadFrame(ret.address)
              /\ T[2].tx_data = EmptyBuffer
              /\ T[2].rx_data = <<m_status_byte>> \o BigEndian(addressed)
              /\ ret.op = "read" => ret.value = addressed
              /\ ret.op = "get_actual_motor_position" => ToUint32(ret.value) = addressed
              /\ ret.op = "get_actual_velocity"
                    => ret.value = get_actual_velocity(
                                       [Driver({}) EXCEPT !.pending = <<>>]).value

C29_Witness ==
    /\ ret.op = "get_actual_velocity" /\ ret.res = SUCCESS
    /\ m_register_values[VACTUAL.address] = <<0, 1000>>
    /\ m_register_values[XACTUAL.address] = <<0, 54321>>
    /\ TransfersOf(m_transactions)[1].rx_data = <<m_status_byte, 0, 0, 212, 49>>
    /\ TransfersOf(m_transactions)[2].rx_data = <<m_status_byte, 0, 0, 3, 232>>
    /\ ret.value = <<14062500, -24>>

----------------------------------------------------------------------------
(* Converter: the conversions applied to inputs that are not whole numbers *)

\* the float of a whole number below 2^24
ToFloat(n) == Round24(n, 0, FALSE)

\* rpm.raw() * m_full_steps is a float product (200 = 25 * 2^3), rounded to 24
\* bits; the rest is double arithmetic on it:
\* ((p * 256.0) / 60.0 * 2^24) / f_clk = p * 2^22 / 703125, truncated by the cast
StepsPerMinute(f) == Round24(f[1] * 25, f[2] + 3, FALSE)

\* mutant: the speed is taken per second, the division by 60 is left out
rpm_to_vmax_float_per_second(f) ==
    LET p == StepsPerMinute(f)
        k == p[2] + 20
        D == 46875
    IN  IF p[1] = 0 \/ k < -24 THEN 0
        ELSE IF k >= 0 THEN ScaleDiv(p[1] \div D, p[1] % D, k, D)[1]
        ELSE (p[1] \div (2 ^ (-k))) \div D

\* rpm_to_vmax of a non-negative float below 2^31 * 28125 / 2^25 RPM
rpm_to_vmax_float(f) ==
    LET p == StepsPerMinute(f)
        k == p[2] + 22
        D == 703125
    IN  IF p[1] = 0 \/ k < -24 THEN 0
        ELSE IF k >= 0 THEN ScaleDiv(p[1] \div D, p[1] % D, k, D)[1]
        ELSE (p[1] \div (2 ^ (-k))) \div D

\* Inputs of the conversions. Speeds: the whole RPM values 0..MaxWholeRpm; the
\* multiples of 1/4096 RPM up to FineSteps/4096 RPM; the floats that follow
\* 1000.0 (one unit in the last place is 2^-14 there). Currents in whole mA.
MaxWholeRpm == 3000
FineSteps == 8192
DenseSteps == 255
MaxNegativeCurrent == 1000
MaxCurrent == 6000

SpeedKinds == {"whole", "fine", "dense"}

ConverterInputs ==
    [kind : {"whole"}, n : 0..MaxWholeRpm]
        \cup [kind : {"fine"}, n : 0..FineSteps]
        \cup [kind : {"dense"}, n : 0..DenseSteps]
        \cup [kind : {"current"}, n : (-MaxNegativeCurrent)..MaxCurrent]

\* the float a speed input stands for
InputFloat(i) ==
    CASE i.kind = "whole" -> ToFloat(i.n)
      [] i.kind = "fine" -> Round24(i.n, -12, FALSE)
      [] i.kind = "dense" -> <<16384000 + i.n, -14>>

\* the next input of the same kind
Successor(i) == [i EXCEPT !.n = @ + 1]

ConverterInit ==
    /\ m_register_cache = [a \in Addresses |-> Zero]
    /\ m_register_values = HwImage(0) /\ m_status_byte = HwStatus(0)
    /\ m_pending_response = <<>>
    /\ m_selected = FALSE
    /\ m_transactions = <<>>
    /\ last_write = [a \in Addresses |-> NoValue]
    /\ \E i \in ConverterInputs :
          ret = [op |-> "init", address |-> 0, arg |-> i, res |-> SUCCESS, value |-> NoValue]

Converted(op, value) ==
    /\ ret' = [ret EXCEPT !.op = op, !.value = value]
    /\ UNCHANGED <<m_register_cache, m_register_values, m_status_byte, m_pending_response,
                   m_selected, m_transactions, last_write>>

CurrentToCs ==
    /\ ret.op = "init" /\ ret.arg.kind = "current"
    /\ Converted("current_to_cs", current_to_cs(ret.arg.n))

RpmToVmax ==
    /\ ret.op = "init" /\ ret.arg.kind \in SpeedKinds
    /\ Converted("rpm_to_vmax", rpm_to_vmax_float(InputFloat(ret.arg)))

\* the register value converted back
VmaxToRpm ==
    /\ ret.op = "rpm_to_vmax"
    /\ Converted("vmax_to_rpm", [vmax |-> ret.value, rpm |-> vmax_to_rpm(ret.value)])

ConverterNext == CurrentToCs \/ RpmToVmax \/ VmaxToRpm

ConverterSpec == ConverterInit /\ [][ConverterNext]_vars

----------------------------------------------------------------------------
(* Properties of the conversions                                           *)

\* clamp(round(I / rms_full_scale * 32) - 1, 0, 31) for I in mA, with the quotient
\* I * 32000 / 3064129 of current_to_cs rounded to the nearest whole number
RoundedCurrentScale(current) ==
    Clamp(((current * 64000 + 3064129) \div 6128258) - 1, 0, 31)

\* the smallest whole mA at or above (0.325 / 0.075) / sqrt(2) A
FullScaleCurrent == (3064129 + 999) \div 1000

(* C31: for every current I and sense resistor, current_to_cs(I) equals    *)
(* clamp(round(I / rms_full_scale * 32) - 1, 0, 31) with rms_full_scale =  *)
(* (0.325 / sense_resistor) / sqrt(2): the result is always in 0..31, is   *)
(* monotonic non-decreasing in I, is 0 for I <= 0 and is 31 for I at or    *)
(* above full scale.                                                       *)
C31_CurrentScaleIsRounded ==
    ret.op = "current_to_cs"
       => /\ ret.value = RoundedCurrentScale(ret.arg.n)
          /\ ret.value \in 0..31
          /\ current_to_cs(ret.arg.n + 1) >= ret.value
          /\ ret.arg.n <= 0 => ret.value = 0
          /\ ret.arg.n >= FullScaleCurrent => ret.value = 31

\* floor(f * 2^10) for a float f below 2^13
Floor10(f) ==
    IF f[1] = 0 \/ f[2] + 10 < -24 THEN 0 ELSE f[1] \div (2 ^ (-(f[2] + 10)))

\* enough for |a - b| <= 1: the floors of a * 2^10 and b * 2^10 differ by less than 2^10
WithinOne(a, b) ==
    /\ Floor10(a) - Floor10(b) < 1024
    /\ Floor10(b) - Floor10(a) < 1024

\* the speed inputs in [1, 3000] RPM
InRoundTripRange(i) ==
    CASE i.kind = "whole" -> i.n \in 1..3000
      [] i.kind = "fine" -> i.n >= 4096
      [] i.kind = "dense" -> TRUE

\* what holds of one conversion whether or not ties are allowed; strict says of
\* which inputs the next input must give a larger register value
SpeedConversion(strict(_)) ==
    /\ ret.op = "rpm_to_vmax"
          => LET next == rpm_to_vmax_float(InputFloat(Successor(ret.arg)))
             IN  /\ InputFloat(ret.arg) = <<0, 0>> => ret.value = 0
                 /\ next >= ret.value
                 /\ strict(ret.arg) => next > ret.value
                 /\ ret.arg.kind = "whole" => FromNat(ret.value) = rpm_to_vmax(ret.arg.n)
    /\ (ret.op = "vmax_to_rpm" /\ InRoundTripRange(ret.arg))
          => /\ ret.value.vmax = rpm_to_vmax_float(InputFloat(ret.arg))
             /\ WithinOne(ret.value.rpm, InputFloat(ret.arg))

(* C32 as stated: at 12 MHz / 200 full steps, rpm_to_vmax maps 0 RPM to 0, *)
(* is strictly increasing for increasing positive RPM, and for every input *)
(* x in [1, 3000] RPM vmax_to_rpm(rpm_to_vmax(x)) differs from x by at     *)
(* most 1 RPM.                                                             *)
C32_StrictlyIncreasing == SpeedConversion(LAMBDA i : i.n >= 1)

(* C32, amended: at 12 MHz / 200 full steps, rpm_to_vmax maps 0 RPM to 0,  *)
(* is non-decreasing in the RPM and strictly increasing across whole-      *)
(* number RPM values (inputs closer than 28125 / 2^25 RPM can share a      *)
(* register value), and for every input x in [1, 3000] RPM                 *)
(* vmax_to_rpm(rpm_to_vmax(x)) differs from x by at most 1 RPM.            *)
C32_IncreasingAcrossWholeRpm == SpeedConversion(LAMBDA i : i.kind = "whole")

C32_Witness ==
    /\ ret.op = "vmax_to_rpm"
    /\ ret.arg = [kind |-> "fine", n |-> 4097]
    /\ ret.value.vmax = 1193
    /\ rpm_to_vmax_float(InputFloat([kind |-> "fine", n |-> 4096])) = 1193
    /\ ret.value.rpm # InputFloat(ret.arg)

----------------------------------------------------------------------------
(* The same call made several times in a row                               *)

MaxRepeats == 3

\* calls built on write<R>: the write itself and operations of TMC5160Motion
RepeatedCalls ==
    [op : {"write"}, arg : {Zero, FromNat(100)}]
        \cup [op : {"stop"}, arg : {0}]
        \cup [op : {"set_max_velocity", "rotate"}, arg : {0, 60}]
        \cup [op : {"set_acceleration"}, arg : {10000}]
        \cup [op : {"set_actual_motor_position"}, arg : {0, 12345}]

SequencerCall(d, c) ==
    CASE c.op = "write" -> write(d, VMAX, c.arg)
      [] c.op = "stop" -> stop(d)
      [] c.op = "set_max_velocity" -> set_max_velocity(d, c.arg)
      [] c.op = "rotate" -> rotate(d, c.arg)
      [] c.op = "set_acceleration" -> set_acceleration(d, c.arg)
      [] c.op = "set_actual_motor_position" -> set_actual_motor_position(d, c.arg)

\* n calls one after the other; the result is that of the last one
RECURSIVE Repeated(_, _, _)
Repeated(r, c, n) ==
    IF n = 0 THEN r ELSE Repeated(SequencerCall(r.d, c), c, n - 1)

Repeat ==
    \E c \in RepeatedCalls, n \in 1..MaxRepeats, f \in TwoWriteFails :
        Return("repeat", 0, [call |-> c, n |-> n],
               Repeated(Result(Driver(f), SUCCESS, NoValue), c, n))

RepeatNext == Repeat

RepeatSpec == MotionInit /\ [][RepeatNext]_vars

\* the frames of one call: what it transmits on a driver fresh from construction
FramesOfCall(c) ==
    LET fresh == [Driver({}) EXCEPT !.cache = [a \in Addresses |-> Zero]]
        T == TransfersOf(SequencerCall(fresh, c).d.log)
    IN  [i \in 1..Len(T) |-> T[i].tx_data]

(* C33: writes are never suppressed: write<R>(v), and every Sequencer call *)
(* built on it, transmits its write frame even when the shadow cache slot  *)
(* of R already holds v, so n identical calls produce n frames.            *)
C33_WritesNeverSuppressed ==
    ret.op = "repeat"
       => LET c == ret.arg.call
              T == TransfersOf(m_transactions)
              F == FramesOfCall(c)
          IN  /\ c.op = "write" => F = <<WriteFrame(VMAX.address, c.arg)>>
              /\ c.op = "stop" => F = <<WriteFrame(VMAX.address, Zero)>>
              /\ Len(F) = 1 => Len(T) = ret.arg.n
              /\ (\A i \in 1..Len(T) : T[i].ok)
                    => /\ Len(T) = ret.arg.n * Len(F)
                       /\ \A i \in 1..Len(T) : T[i].tx_data = F[((i - 1) % Len(F)) + 1]

C33_Witness ==
    /\ ret.op = "repeat" /\ ret.res = SUCCESS
    /\ ret.arg = [call |-> [op |-> "write", arg |-> FromNat(100)], n |-> 3]
    /\ Len(TransfersOf(m_transactions)) = 3
    /\ \A i \in 1..3 : /\ TransfersOf(m_transactions)[i].ok
                       /\ TransfersOf(m_transactions)[i].tx_data = <<167, 0, 0, 0, 100>>
    /\ m_register_cache[VMAX.address] = FromNat(100)

----------------------------------------------------------------------------
(* The run-time dispatch against the compile-time operations               *)

(* C34: for every schema-registered address a, the dynamic                 *)
(* get_register_value(a) has the same result, bus frames and cache effect  *)
(* as the static read of the register at a, and for every registered       *)
(* writable a, set_register_value(a, v) has the same result, bus frame and *)
(* cache effect as the static write of v to that register, from any        *)
(* starting state.                                                         *)
C34_DispatchEqualsStatic ==
    /\ \A R \in SchemaRegisters : \A f \in ReadFails :
          LET dynamic == get_register_value(Driver(f), R.address)
              static == read(Driver(f), R)
          IN  /\ dynamic.res = static.res /\ dynamic.value = static.value
              /\ dynamic.d.log = static.d.log
              /\ dynamic.d.cache = static.d.cache
              /\ dynamic = static
    /\ \A R \in {Q \in SchemaRegisters : WritableRegister(Q)} :
          \A v \in Values, f \in WriteFails :
             LET dynamic == set_register_value(Driver(f), R.address, v)
                 static == write(Driver(f), R, v)
             IN  /\ dynamic.res = static.res
                 /\ dynamic.d.log = static.d.log
                 /\ dynamic.d.cache = static.d.cache
                 /\ dynamic = static
    /\ (ret.op = "get_register_value" /\ ret.address \in SchemaAddrs /\ ret.res = SUCCESS)
          => ret.value = IF ret.address \in CachedAddrs
                         THEN m_register_cache[ret.address]
                         ELSE m_register_values[ret.address]
    /\ (ret.op = "set_register_value" /\ ret.address \in SchemaAddrs \ ReadOnlyAddrs)
          => /\ m_register_cache[ret.address] = ret.arg
             /\ Len(TransfersOf(m_transactions)) = 1
             /\ TransfersOf(m_transactions)[1].tx_data = WriteFrame(ret.address, ret.arg)

C34_Witness ==
    /\ ret.op = "get_register_value" /\ ret.address = XTARGET.address
    /\ ret.res = SUCCESS /\ ret.value = ValueList[2]
    /\ m_transactions = <<>>
    /\ m_register_cache[XTARGET.address] = ValueList[2]
    /\ m_register_values[XTARGET.address] # ValueList[2]
    /\ read(Driver({}), XTARGET).value = ValueList[2]

----------------------------------------------------------------------------
(* The frames of set_linear_acceleration                                   *)

\* the four frames are AMAX, DMAX, D1, A1 carrying a_val, d_val, d_val, a_val
LinearAccelerationFrames(T, a_val, d_val) ==
    /\ Len(T) = 4
    /\ \A i \in 1..4 : T[i].ok
    /\ WritesTo(T[1], AMAX, a_val)
    /\ WritesTo(T[2], DMAX, d_val)
    /\ WritesTo(T[3], D1, d_val)
    /\ WritesTo(T[4], A1, a_val)

(* C35: a successful set_linear_acceleration(accel, decel) transmits four  *)
(* write frames in the order AMAX, DMAX, D1, A1, where AMAX and A1 carry   *)
(* the same converted accel value and DMAX and D1 carry the same converted *)
(* decel value.                                                            *)
C35_LinearAccelerationFrames ==
    /\ (ret.op = "set_linear_acceleration" /\ ret.res = SUCCESS)
          => /\ LinearAccelerationFrames(TransfersOf(m_transactions),
                                         accel_to_register(ret.arg[1]),
                                         accel_to_register(ret.arg[2]))
             /\ Len(m_transactions) = 12
    /\ \A accel \in AccelSamples, decel \in AccelSamples :
          LET r == set_linear_acceleration(Driver({}), accel, decel)
          IN  /\ r.res = SUCCESS
              /\ LinearAccelerationFrames(TransfersOf(r.d.log), accel_to_register(accel),
                                          accel_to_register(decel))

C35_Witness ==
    /\ ret.op = "set_linear_acceleration" /\ ret.res = SUCCESS
    /\ ret.arg = <<10000, 0>>
    /\ TransfersOf(m_transactions)[1].tx_data = <<166, 0, 0, 0, 152>>
    /\ TransfersOf(m_transactions)[2].tx_data = <<168, 0, 0, 0, 1>>
    /\ TransfersOf(m_transactions)[3].tx_data = <<170, 0, 0, 0, 1>>
    /\ TransfersOf(m_transactions)[4].tx_data = <<164, 0, 0, 0, 152>>

----------------------------------------------------------------------------
(* A hardware read whose transfer fails                                    *)

(* C36: if the first transfer of a hardware read fails, the second         *)
(* (all-zero) frame is not transmitted: the read performs exactly one      *)
(* transfer, with one select and one deselect, and returns                 *)
(* SPI_TRANSFER_FAILED; the read fails as well when only the second        *)
(* transfer fails.                                                         *)
C36_FailedReadFrames ==
    ReadsHardware
       => LET T == TransfersOf(m_transactions)
          IN  /\ Len(T) \in {1, 2}
              /\ Bracketed(m_transactions)
              /\ T[1].tx_data = ReadFrame(ret.address)
              /\ ~T[1].ok
                    => /\ Len(T) = 1
                       /\ Len(m_transactions) = 3
                       /\ ret.res = SPI_TRANSFER_FAILED /\ ret.value = NoValue
              /\ T[1].ok
                    => /\ Len(T) = 2
                       /\ T[2].tx_data = EmptyBuffer
                       /\ ~T[2].ok => (ret.res = SPI_TRANSFER_FAILED /\ ret.value = NoValue)
                       /\ T[2].ok => ret.res = SUCCESS
              /\ m_selected = FALSE

C36_Witness ==
    /\ ret.op = "get_actual_motor_position" /\ ret.res = SPI_TRANSFER_FAILED
    /\ Len(m_transactions) = 3
    /\ m_transactions[1].ev = "select"
    /\ m_transactions[2].ev = "transfer" /\ ~m_transactions[2].ok
    /\ m_transactions[2].tx_data = <<33, 0, 0, 0, 0>>
    /\ m_transactions[3].ev = "deselect"

----------------------------------------------------------------------------
(* A field write after a field write that failed                           *)

\* write_field<F1>(v1), whose transfer fails, then write_field<F2>(v2) on another
\* field of the same register
FieldWriteAfterFailed ==
    \E F1 \in FieldSet, v1 \in FieldValues, v2 \in FieldValues :
        \E F2 \in Siblings(F1) :
            /\ WritableField(F1) /\ WritableField(F2)
            /\ FieldReturn("write_field_after_failed", F2, <<F1, v1, v2>>,
                           write_field(write_field(Driver({1}), F1, v1).d, F2, v2))

FieldRetryNext == FieldWriteAfterFailed

FieldRetrySpec == Init /\ [][FieldRetryNext]_vars

(* C37: a field value whose write_field transfer failed is carried into    *)
(* later frames: after a failed write_field(f1, v1) followed by a          *)
(* successful write_field(f2, v2) on a sibling field of the same register, *)
(* the transmitted frame contains v1 in f1's bits and v2 in f2's bits, so  *)
(* the hardware receives v1 although the call that set it reported         *)
(* failure.                                                                *)
C37_FailedFieldValueCarried ==
    ret.op = "write_field_after_failed"
       => LET T == TransfersOf(m_transactions)
              F1 == ret.arg[1]
              F2 == ret.field
              sent == FrameValue(T[2].tx_data)
          IN  /\ Len(T) = 2
              /\ ~T[1].ok /\ T[2].ok /\ ret.res = SUCCESS
              /\ T[2].tx_data[1] = ret.address + 128
              /\ FieldNat(sent, StartBit(F1), Length(F1)) = Truncated(ret.arg[2], Length(F1))
              /\ FieldNat(sent, StartBit(F2), Length(F2)) = Truncated(ret.arg[3], Length(F2))
              /\ m_register_cache[ret.address] = sent

C37_Witness ==
    /\ ret.op = "write_field_after_failed" /\ ret.res = SUCCESS
    /\ ret.field = i_run_t
    /\ ret.arg = <<i_hold_t, <<65535, 65535>>, <<4660, 22136>>>>
    /\ ~TransfersOf(m_transactions)[1].ok
    /\ TransfersOf(m_transactions)[1].tx_data = <<144, 0, 0, 0, 31>>
    /\ TransfersOf(m_transactions)[2].tx_data = <<144, 0, 0, 24, 31>>

----------------------------------------------------------------------------
(* The array get_all_registers returns                                     *)

\* the value get_all_registers obtains for a register of the schema
ValueReadFor(R) ==
    IF ServedFromCache(R) THEN m_register_cache[R.address]
    ELSE m_register_values[R.address]

(* C38: on success get_all_registers returns a 128-entry array filled by   *)
(* schema position, not by register address: entry k, for k = 0..21, holds *)
(* the value read for the k-th register of the schema tuple (GCONF at 0,   *)
(* DRV_STATUS at 21) and all remaining entries are 0; only the read-only   *)
(* and volatile schema registers cause bus transfers, the others are taken *)
(* from the shadow cache.                                                  *)
C38_ArrayBySchemaPosition ==
    (ret.op = "get_all_registers" /\ ret.res = SUCCESS)
       => LET T == TransfersOf(m_transactions)
              n == Len(register_tuple)
              FromChip == {k \in 1..n : register_tuple[k].access = "RO"
                                           \/ register_tuple[k].volatile}
          IN  /\ DOMAIN ret.value = 0..(tmc_register_count - 1)
              /\ n = 22 /\ register_tuple[1] = GCONF /\ register_tuple[22] = DRV_STATUS
              /\ \A k \in 0..(n - 1) : ret.value[k] = ValueReadFor(register_tuple[k + 1])
              /\ \A k \in n..(tmc_register_count - 1) : ret.value[k] = Zero
              /\ Len(T) = 2 * Cardinality(FromChip)
              /\ {T[i].tx_data[1] : i \in {j \in 1..Len(T) : j % 2 = 1}}
                    = {register_tuple[k].address : k \in FromChip}
              /\ \A i \in 1..Len(T) :
                    i % 2 = 0 => T[i].tx_data = <<0, 0, 0, 0, 0>>

C38_Witness ==
    /\ ret.op = "get_all_registers" /\ ret.res = SUCCESS
    /\ m_register_cache[VMAX.address] = ValueList[1]
    /\ ret.value[6] = ValueList[1]
    /\ ret.value[VMAX.address] = Zero
    /\ ret.value[21] = m_register_values[DRV_STATUS.address]
    /\ Len(TransfersOf(m_transactions)) = 8

----------------------------------------------------------------------------
(* The slots of the shadow cache an operation changes                      *)

\* the addresses write and write_field are called on
WriteTargets ==
    {R.address : R \in WriteRegs} \cup {F.register_t.address : F \in WriteFields}

(* C39: all 128 shadow cache slots are 0 at construction, and write<R>(v)  *)
(* or write_field on a field of R changes only the slot at R's address:    *)
(* every other slot keeps its value, so a slot whose address was never the *)
(* target of a write or write_field stays 0 after any sequence of          *)
(* operations.                                                             *)
C39_OnlyTheTargetSlotChanges ==
    /\ (DOMAIN m_register_cache = 0..127 /\ \A a \in Addresses : m_register_cache[a] = Zero)
    /\ [][\A a \in Addresses :
             m_register_cache'[a] # m_register_cache[a]
                => (ret'.op \in {"write", "write_field"} /\ ret'.address = a)]_vars
    /\ [](\A a \in Addresses \ WriteTargets : m_register_cache[a] = Zero)

C39_Witness ==
    /\ ret.op = "write_field" /\ ret.address = IHOLD_IRUN.address
    /\ m_register_cache[IHOLD_IRUN.address] # Zero
    /\ m_register_cache[VMAX.address] = ValueList[1]
    /\ m_register_cache[XTARGET.address] = ValueList[2]
    /\ \A a \in Addresses \ {IHOLD_IRUN.address, VMAX.address, XTARGET.address} :
          m_register_cache[a] = Zero

----------------------------------------------------------------------------
(* apply_default_configuration when one of its configuration writes fails  *)

\* the number of frames of the call that go to register R
FramesTo(T, R) == Cardinality({i \in 1..Len(T) : WrittenAddress(T[i]) = R.address})

(* C40: in apply_default_configuration, if any of the fifteen writes that  *)
(* precede the ramp-mode write fails, the operation returns                *)
(* SPI_TRANSFER_FAILED and the RAMPMODE frame is never transmitted; a      *)
(* failure among those fifteen does not stop the others of the fifteen     *)
(* from being attempted.                                                   *)
C40_FailedDefaultsSkipRampMode ==
    LET T == TransfersOf(m_transactions)
        n == Len(DefaultConfiguration)
    IN  (/\ ret.op = "apply_default_configuration"
         /\ \E i \in 1..MinOf(n, Len(T)) : ~T[i].ok)
           => /\ n = 15
              /\ ret.res = SPI_TRANSFER_FAILED
              /\ Len(T) = n
              /\ FramesTo(T, RAMPMODE) = 0
              /\ \A R \in {VSTOP, V1, AMAX, DMAX, A1, D1, TWPOWER_DOWN, XTARGET} :
                    FramesTo(T, R) = 1
              /\ FramesTo(T, IHOLD_IRUN) = 3
              /\ FramesTo(T, CHOPCONF) = 4

C40_Witness ==
    /\ ret.op = "apply_default_configuration" /\ ret.arg = <<"left_to_right">>
    /\ ret.res = SPI_TRANSFER_FAILED
    /\ Len(TransfersOf(m_transactions)) = 15
    /\ ~TransfersOf(m_transactions)[3].ok
    /\ WrittenAddress(TransfersOf(m_transactions)[3]) = AMAX.address
    /\ TransfersOf(m_transactions)[15].ok
    /\ WritesTo(TransfersOf(m_transactions)[15], XTARGET, Zero)

====
